---- MODULE Spec2Model ----
(***************************************************************************)
(* A model of the Arrow Flight SQL client: the session                     *)
(* (FlightSqlServiceClient), the prepared-statement handle                 *)
(* (PreparedStatement), the envelope codec (ProstMessageExt / ProstAnyExt) *)
(* and the retrieval step of the command-line front end (get_and_print).   *)
(*                                                                         *)
(* An asynchronous operation is a sequence of steps, one per await point.  *)
(* The server and the transport are the environment: every answer they can *)
(* give is drawn from a small set at the step that receives it.            *)
(***************************************************************************)
EXTENDS Integers, Sequences, FiniteSets, TLC

(***************************************************************************)
(* Bounds of the model.                                                    *)
(***************************************************************************)
MaxRpcs == 3        \* RPCs recorded per connection
MaxCount == 5       \* largest record count the server reports
MaxEndpoints == 2   \* endpoints of a FlightInfo
MaxFrames == 2      \* frames of a result stream
MaxReads == 2       \* RPCs per connection after which no describe or do_get is called

StmtIds == {1, 2}   \* a handle and its clone
TaskIds == {1, 2}   \* futures the caller may interleave on its thread

Queries == {"SELECT 1"}

(***************************************************************************)
(* Option<T>: None is the empty sequence, Some(x) is <<x>>.                *)
(***************************************************************************)
None == <<>>
Some(x) == <<x>>
IsSome(o) == Len(o) = 1
Unwrapped(o) == o[1]

(***************************************************************************)
(* Bytes.  A byte string is a sequence of units.  A unit is either a field *)
(* item of an encoded protobuf message or raw data that is no valid item.  *)
(* An item names its field and its wire type: "varint" with the value n,   *)
(* or "len" (length-delimited) with either the text s or the nested bytes  *)
(* b.  Raw data is a unit of wire type "byte" (one byte, value n) or       *)
(* "text" (the UTF-8 bytes of s).  Fields that hold the default value are  *)
(* not written by the encoder.                                             *)
(***************************************************************************)
Item(f, wt, n, s, b) == [f |-> f, wt |-> wt, n |-> n, s |-> s, b |-> b]
VarintItem(f, n) == Item(f, "varint", n, "", <<>>)
StrItem(f, s) == Item(f, "len", 0, s, <<>>)
BytesItem(f, b) == Item(f, "len", 0, "", b)
Byte(n) == Item("", "byte", n, "", <<>>)
TextBytes(s) == IF s = "" THEN <<>> ELSE <<Item("", "text", 0, s, <<>>)>>
Bytes(ns) == [i \in 1..Len(ns) |-> Byte(ns[i])]

\* the content of a length-delimited item read as a string field: nested
\* bytes are not valid UTF-8 text
StrOk(item) == item.b = <<>>

\* the content of a length-delimited item read as a bytes field
BytesOf(item) == IF item.s # "" THEN TextBytes(item.s) ELSE item.b

\* prost::Message::decode fails on bytes that are no item, on a known field
\* written with the wrong wire type and on a string field that is not text;
\* unknown fields are skipped.  wts gives the wire type of the known fields,
\* strs the string fields among them.
WireOk(bytes, wts, strs) ==
    \A i \in 1..Len(bytes) :
        /\ bytes[i].wt \in {"varint", "len"}
        /\ bytes[i].f \in DOMAIN wts => bytes[i].wt = wts[bytes[i].f]
        /\ bytes[i].f \in strs => StrOk(bytes[i])

\* the last occurrence of a field wins; an absent field has its default
RECURSIVE LastItem(_, _, _)
LastItem(bytes, f, default) ==
    IF bytes = <<>> THEN default
    ELSE LET n == Len(bytes) IN
         IF bytes[n].f = f THEN bytes[n]
         ELSE LastItem(SubSeq(bytes, 1, n - 1), f, default)

Decoded(v) == [ok |-> TRUE, v |-> v]
DecodeError == [ok |-> FALSE]

(***************************************************************************)
(* The messages of FlightSql.proto the client builds or reads.             *)
(***************************************************************************)
TypeUrlPrefix == "type.googleapis.com/arrow.flight.protocol.sql."

\* the message types of the prost_message_ext! list
MessageNames ==
    {"ActionClosePreparedStatementRequest", "ActionCreatePreparedStatementRequest",
     "ActionCreatePreparedStatementResult", "CommandGetCatalogs",
     "CommandGetCrossReference", "CommandGetDbSchemas", "CommandGetExportedKeys",
     "CommandGetImportedKeys", "CommandGetPrimaryKeys", "CommandGetSqlInfo",
     "CommandGetTableTypes", "CommandGetTables", "CommandPreparedStatementQuery",
     "CommandPreparedStatementUpdate", "CommandStatementQuery",
     "CommandStatementUpdate", "DoPutUpdateResult", "TicketStatementQuery"}

\* ProstMessageExt::type_url: concat!(prefix, stringify!($name))
type_url(name) == TypeUrlPrefix \o name

\* encode_to_vec of a message whose only field is the string `query`
EncodeQuery(query) == IF query = "" THEN <<>> ELSE <<StrItem("query", query)>>

\* encode_to_vec of a message whose only field is prepared_statement_handle
EncodeHandle(handle) ==
    IF handle = <<>> THEN <<>> ELSE <<BytesItem("prepared_statement_handle", handle)>>

\* encode_to_vec of DoPutUpdateResult
EncodeDoPutUpdateResult(record_count) ==
    IF record_count = 0 THEN <<>> ELSE <<VarintItem("record_count", record_count)>>

\* prost decode of DoPutUpdateResult
DecodeDoPutUpdateResult(bytes) ==
    IF ~WireOk(bytes, [record_count |-> "varint"], {}) THEN DecodeError
    ELSE Decoded([record_count |->
                    LastItem(bytes, "record_count", VarintItem("record_count", 0)).n])

\* encode_to_vec of ActionCreatePreparedStatementResult
EncodeCreateResult(r) ==
    (IF r.prepared_statement_handle = <<>> THEN <<>>
     ELSE <<BytesItem("prepared_statement_handle", r.prepared_statement_handle)>>)
    \o (IF r.dataset_schema = <<>> THEN <<>>
        ELSE <<BytesItem("dataset_schema", r.dataset_schema)>>)
    \o (IF r.parameter_schema = <<>> THEN <<>>
        ELSE <<BytesItem("parameter_schema", r.parameter_schema)>>)

\* prost decode of ActionCreatePreparedStatementResult
DecodeCreateResult(bytes) ==
    IF ~WireOk(bytes, [prepared_statement_handle |-> "len", dataset_schema |-> "len",
                       parameter_schema |-> "len"], {})
    THEN DecodeError
    ELSE Decoded([prepared_statement_handle |->
                      BytesOf(LastItem(bytes, "prepared_statement_handle", BytesItem("", <<>>))),
                  dataset_schema |->
                      BytesOf(LastItem(bytes, "dataset_schema", BytesItem("", <<>>))),
                  parameter_schema |->
                      BytesOf(LastItem(bytes, "parameter_schema", BytesItem("", <<>>)))])

(***************************************************************************)
(* The binary encoding of every message type of the prost_message_ext!     *)
(* list, by the fields of the type.  A field is known by its name; its     *)
(* type says how the encoder writes it and what the decoder accepts.       *)
(***************************************************************************)
MaxRepeat == 2      \* elements of a repeated field

Field(f, type) == [f |-> f, type |-> type]

\* the fields of CommandGetPrimaryKeys, CommandGetExportedKeys and
\* CommandGetImportedKeys
KeyFields ==
    <<Field("catalog", "optional string"), Field("db_schema", "optional string"),
      Field("table", "string")>>

\* the fields of a message type, in the order the encoder writes them
Fields(name) ==
    CASE name \in {"CommandStatementQuery", "CommandStatementUpdate",
                   "ActionCreatePreparedStatementRequest"} ->
            <<Field("query", "string")>>
      [] name \in {"CommandPreparedStatementQuery", "CommandPreparedStatementUpdate",
                   "ActionClosePreparedStatementRequest"} ->
            <<Field("prepared_statement_handle", "bytes")>>
      [] name = "TicketStatementQuery" -> <<Field("statement_handle", "bytes")>>
      [] name = "DoPutUpdateResult" -> <<Field("record_count", "int64")>>
      [] name = "ActionCreatePreparedStatementResult" ->
            <<Field("prepared_statement_handle", "bytes"), Field("dataset_schema", "bytes"),
              Field("parameter_schema", "bytes")>>
      [] name \in {"CommandGetCatalogs", "CommandGetTableTypes"} -> <<>>
      [] name = "CommandGetDbSchemas" ->
            <<Field("catalog", "optional string"),
              Field("db_schema_filter_pattern", "optional string")>>
      [] name = "CommandGetTables" ->
            <<Field("catalog", "optional string"),
              Field("db_schema_filter_pattern", "optional string"),
              Field("table_name_filter_pattern", "optional string"),
              Field("table_types", "repeated string"), Field("include_schema", "bool")>>
      [] name \in {"CommandGetPrimaryKeys", "CommandGetExportedKeys",
                   "CommandGetImportedKeys"} -> KeyFields
      [] name = "CommandGetCrossReference" ->
            <<Field("pk_catalog", "optional string"), Field("pk_db_schema", "optional string"),
              Field("pk_table", "string"), Field("fk_catalog", "optional string"),
              Field("fk_db_schema", "optional string"), Field("fk_table", "string")>>
      [] name = "CommandGetSqlInfo" -> <<Field("info", "repeated uint32")>>

\* an encoder that takes the empty string of an optional field for absent
EncodeField_proto3(field, v) ==
    CASE field.type = "string" -> IF v = "" THEN <<>> ELSE <<StrItem(field.f, v)>>
      [] field.type = "bytes" -> IF v = <<>> THEN <<>> ELSE <<BytesItem(field.f, v)>>
      [] field.type = "int64" -> IF v = 0 THEN <<>> ELSE <<VarintItem(field.f, v)>>
      [] field.type = "bool" -> IF v THEN <<VarintItem(field.f, 1)>> ELSE <<>>
      [] field.type = "optional string" ->
            IF v = None \/ v = Some("") THEN <<>> ELSE <<StrItem(field.f, Unwrapped(v))>>
      [] field.type = "repeated string" -> [i \in 1..Len(v) |-> StrItem(field.f, v[i])]
      [] field.type = "repeated uint32" ->
            IF v = <<>> THEN <<>> ELSE <<BytesItem(field.f, Bytes(v))>>

\* what the encoder writes for one field: nothing for a default value, one
\* item per element of a repeated string, one packed item for the numbers
\* (a number below 128 is one byte)
EncodeField(field, v) ==
    CASE field.type = "string" -> IF v = "" THEN <<>> ELSE <<StrItem(field.f, v)>>
      [] field.type = "bytes" -> IF v = <<>> THEN <<>> ELSE <<BytesItem(field.f, v)>>
      [] field.type = "int64" -> IF v = 0 THEN <<>> ELSE <<VarintItem(field.f, v)>>
      [] field.type = "bool" -> IF v THEN <<VarintItem(field.f, 1)>> ELSE <<>>
      [] field.type = "optional string" ->
            IF v = None THEN <<>> ELSE <<StrItem(field.f, Unwrapped(v))>>
      [] field.type = "repeated string" -> [i \in 1..Len(v) |-> StrItem(field.f, v[i])]
      [] field.type = "repeated uint32" ->
            IF v = <<>> THEN <<>> ELSE <<BytesItem(field.f, Bytes(v))>>

RECURSIVE EncodeFields(_, _)
EncodeFields(fields, c) ==
    IF fields = <<>> THEN <<>>
    ELSE EncodeField(Head(fields), c[Head(fields).f]) \o EncodeFields(Tail(fields), c)

\* prost::Message::encode_to_vec of the value c of the message type `name`
encode_to_vec(name, c) == EncodeFields(Fields(name), c)

\* the content of a packed item is a run of varints; the model reads the
\* one-byte varints, and its inputs hold no other bytes in such a field
PackedOk(item) ==
    /\ item.s = ""
    /\ \A i \in 1..Len(item.b) : item.b[i].wt = "byte" /\ item.b[i].n < 128

\* the decoder accepts an item for a field of this type
ItemOk(item, type) ==
    CASE type \in {"string", "optional string", "repeated string"} ->
            item.wt = "len" /\ StrOk(item)
      [] type = "bytes" -> item.wt = "len"
      [] type \in {"int64", "bool"} -> item.wt = "varint"
      [] type = "repeated uint32" ->
            item.wt = "varint" \/ (item.wt = "len" /\ PackedOk(item))

\* the decoder reads the bytes through: every unit is an item, and an item
\* of a field of the type has the wire type of the field; other items are
\* skipped
FieldsOk(bytes, fields) ==
    \A i \in 1..Len(bytes) :
        /\ bytes[i].wt \in {"varint", "len"}
        /\ \A j \in 1..Len(fields) :
              fields[j].f = bytes[i].f => ItemOk(bytes[i], fields[j].type)

\* the elements of a repeated field, in the order of their items; the
\* numbers come packed or one by one
RECURSIVE Repeated(_, _)
Repeated(bytes, field) ==
    IF bytes = <<>> THEN <<>>
    ELSE LET item == Head(bytes)
             rest == Repeated(Tail(bytes), field)
         IN IF item.f # field.f THEN rest
            ELSE IF field.type = "repeated string" THEN <<item.s>> \o rest
            ELSE IF item.wt = "varint" THEN <<item.n>> \o rest
            ELSE [i \in 1..Len(item.b) |-> item.b[i].n] \o rest

\* what the decoder makes of one field: the last item of the field, the
\* default when there is none
DecodeField(bytes, field) ==
    LET last == LastItem(bytes, field.f, Item(field.f, "", 0, "", <<>>)) IN
    CASE field.type = "string" -> last.s
      [] field.type = "bytes" -> BytesOf(last)
      [] field.type = "int64" -> last.n
      [] field.type = "bool" -> last.n # 0
      [] field.type = "optional string" -> IF last.wt = "" THEN None ELSE Some(last.s)
      [] field.type \in {"repeated string", "repeated uint32"} -> Repeated(bytes, field)

\* prost::Message::decode of the bytes as the message type `name`
decode(name, bytes) ==
    LET fields == Fields(name) IN
    IF ~FieldsOk(bytes, fields) THEN DecodeError
    ELSE Decoded([f \in {fields[j].f : j \in 1..Len(fields)} |->
                    DecodeField(bytes,
                                fields[CHOOSE j \in 1..Len(fields) : fields[j].f = f])])

(***************************************************************************)
(* The envelope (prost_types::Any) and its codec.                          *)
(***************************************************************************)
ProstAny(url, value) == [type_url |-> url, value |-> value]

\* ProstMessageExt::as_any: the type tag of the message type and its encoding
as_any(name, encoded) == ProstAny(type_url(name), encoded)

\* encode_to_vec of prost_types::Any
EncodeAny(any) ==
    (IF any.type_url = "" THEN <<>> ELSE <<StrItem("type_url", any.type_url)>>)
    \o (IF any.value = <<>> THEN <<>> ELSE <<BytesItem("value", any.value)>>)

\* prost::Message::decode::<prost_types::Any>
DecodeAny(bytes) ==
    IF ~WireOk(bytes, [type_url |-> "len", value |-> "len"], {"type_url"})
    THEN DecodeError
    ELSE Decoded(ProstAny(LastItem(bytes, "type_url", StrItem("type_url", "")).s,
                          BytesOf(LastItem(bytes, "value", BytesItem("value", <<>>)))))

\* ProstAnyExt::pack: Ok(message.as_any())
pack(name, encoded) == as_any(name, encoded)

\* ProstAnyExt::is
is(any, name) == type_url(name) = any.type_url

\* unpack() that decodes the payload before it looks at the type tag
unpack_decode_first(any, name, m) ==
    IF ~m.ok THEN [kind |-> "Err", opt |-> None]
    ELSE IF ~is(any, name) THEN [kind |-> "Ok", opt |-> None]
    ELSE [kind |-> "Ok", opt |-> Some(m.v)]

\* unpack() that takes a payload it cannot decode for a message of another
\* type
unpack_lenient(any, name, m) ==
    IF ~is(any, name) THEN [kind |-> "Ok", opt |-> None]
    ELSE IF ~m.ok THEN [kind |-> "Ok", opt |-> None]
    ELSE [kind |-> "Ok", opt |-> Some(m.v)]

\* ProstAnyExt::unpack for the message type `name`, where m is what the
\* decoder of that type makes of any.value: Ok(None) on another type tag,
\* Err(ParseError) when the payload does not decode, Ok(Some(m)) otherwise
unpack(any, name, m) ==
    IF ~is(any, name) THEN [kind |-> "Ok", opt |-> None]
    ELSE IF ~m.ok THEN [kind |-> "Err", opt |-> None]
    ELSE [kind |-> "Ok", opt |-> Some(m.v)]

(***************************************************************************)
(* Results of operations.  kind is "Ok", "Err" or "Panic"; err is the      *)
(* ArrowError variant and msg its message; n is the integer an operation   *)
(* returns (a record count, a schema, a flag) and 0 otherwise.             *)
(***************************************************************************)
Res(kind, err, msg, n) == [kind |-> kind, err |-> err, msg |-> msg, n |-> n]
Ok(n) == Res("Ok", "", "", n)
Err(err, msg) == Res("Err", err, msg, 0)
Panic(msg) == Res("Panic", "", msg, 0)
NoRes == Res("", "", "", 0)

AlreadyClosed == Err("IoError", "Statement already closed.")

\* status_to_arrow_error
status_to_arrow_error == Err("IoError", "Status")

\* decode_error_to_arrow_error
decode_error_to_arrow_error == Err("IoError", "DecodeError")

\* transport_error_to_arrow_erorr
transport_error_to_arrow_erorr == Err("IoError", "transport error")

\* Option::unwrap on None
UnwrapNone == Panic("called Option::unwrap() on a None value")

(***************************************************************************)
(* IPC messages (flatbuffers).  A well-formed Message is three bytes: the  *)
(* root marker, the code of the header type and the header's content (0    *)
(* when the header is absent).  The verifier accepts a union whose type    *)
(* and value are both present or both absent, of any type code.            *)
(***************************************************************************)
FbRoot == 1
HeaderNONE == 0
HeaderSchema == 1
HeaderDictionaryBatch == 2
HeaderRecordBatch == 3
HeaderTensor == 4
HeaderSparseTensor == 5
HeaderUnknown == 6

FbMessage(header_type, content) == Bytes(<<FbRoot, header_type, content>>)

\* arrow::ipc::root_as_message: the verification of the buffer
root_as_message_ok(buf) ==
    /\ Len(buf) = 3
    /\ \A i \in 1..3 : buf[i].wt = "byte"
    /\ buf[1].n = FbRoot
    /\ (buf[2].n = HeaderNONE) <=> (buf[3].n = 0)

\* arrow::ipc::size_prefixed_root_as_message: four bytes of size, then the
\* message
size_prefixed_root_as_message_ok(buf) ==
    /\ Len(buf) >= 4
    /\ \A i \in 1..4 : buf[i].wt = "byte"
    /\ root_as_message_ok(SubSeq(buf, 5, Len(buf)))

\* the slice bytes[4..]; taking it panics when the blob has fewer than 4 bytes
SliceFrom4(bytes) == SubSeq(bytes, 5, Len(bytes))

\* a schema blob as the server writes it: continuation marker, size, message
SchemaBlob(message) == Bytes(<<255, 255, 255, 255, Len(message), 0, 0, 0>>) \o message

\* impl TryFrom<IpcMessage> for Schema; the schema is named by its content
SchemaTryFrom(value) ==
    IF Len(value) < 4 THEN Panic("range start index 4 out of range")
    ELSE IF ~size_prefixed_root_as_message_ok(SliceFrom4(value))
    THEN Err("ParseError", "Unable to convert flight info to a message")
    ELSE IF SliceFrom4(value)[6].n # HeaderSchema
    THEN Err("ParseError", "Unable to convert flight info to a schema")
    ELSE Ok(SliceFrom4(value)[7].n)

\* arrow_schema_from_flight_info
arrow_schema_from_flight_info(fi) ==
    IF Len(fi.schema) < 4 THEN Panic("range start index 4 out of range")
    ELSE IF ~size_prefixed_root_as_message_ok(SliceFrom4(fi.schema))
    THEN Err("ComputeError", "InvalidFlatbuffer")
    ELSE IF SliceFrom4(fi.schema)[6].n # HeaderSchema
    THEN Err("ComputeError", "failed to get schema...")
    ELSE Ok(SliceFrom4(fi.schema)[7].n)

(***************************************************************************)
(* Frames (FlightData) and the frame decoder.                              *)
(***************************************************************************)
FlightData(flight_descriptor, data_header, app_metadata, data_body) ==
    [flight_descriptor |-> flight_descriptor, data_header |-> data_header,
     app_metadata |-> app_metadata, data_body |-> data_body]

\* FlightDescriptor::new_cmd
new_cmd(cmd) == [type |-> "Cmd", cmd |-> cmd, path |-> <<>>]

\* FlightDescriptor::new_path
new_path(path) == [type |-> "Path", cmd |-> <<>>, path |-> path]

\* the single frame of a put: FlightData { flight_descriptor: Some(d), ..Default }
PutFrame(descriptor) == FlightData(Some(descriptor), <<>>, <<>>, <<>>)

\* arrow::ipc::reader::read_record_batch: the body holds the buffers the
\* batch header describes; the batch is named by its content
read_record_batch_ok(data_body, content) == data_body = Bytes(<<content>>)

\* the Debug form of a MessageHeader that is none of the five kinds: the
\* name of the variant, or the code when the variant has no name
HeaderDebug(header_type) ==
    IF header_type = HeaderNONE THEN "NONE"
    ELSE "<UNKNOWN " \o ToString(header_type) \o ">"

\* a decoder that knows record batches and schemas only
arrow_data_from_flight_data_two_kinds(flight_data, arrow_schema_ref) ==
    LET h == flight_data.data_header IN
    IF ~root_as_message_ok(h)
    THEN [res |-> Err("ParseError", "Unable to get root as message"), art |-> ""]
    ELSE CASE h[2].n = HeaderRecordBatch ->
                IF read_record_batch_ok(flight_data.data_body, h[3].n)
                THEN [res |-> Ok(h[3].n), art |-> "RecordBatch"]
                ELSE [res |-> Err("IoError", "read_record_batch"), art |-> ""]
           [] h[2].n = HeaderSchema -> [res |-> Ok(h[3].n), art |-> "Schema"]
           [] OTHER ->
                [res |-> Err("ComputeError",
                             "Unable to convert message with header_type: '"
                             \o HeaderDebug(h[2].n) \o "' to arrow data"),
                 art |-> ""]

\* a decoder that takes every header it does not know for a tensor
arrow_data_from_flight_data_tensor_default(flight_data, arrow_schema_ref) ==
    LET h == flight_data.data_header IN
    IF ~root_as_message_ok(h)
    THEN [res |-> Err("ParseError", "Unable to get root as message"), art |-> ""]
    ELSE CASE h[2].n = HeaderRecordBatch ->
                IF read_record_batch_ok(flight_data.data_body, h[3].n)
                THEN [res |-> Ok(h[3].n), art |-> "RecordBatch"]
                ELSE [res |-> Err("IoError", "read_record_batch"), art |-> ""]
           [] h[2].n = HeaderSchema -> [res |-> Ok(h[3].n), art |-> "Schema"]
           [] h[2].n = HeaderDictionaryBatch ->
                [res |-> Err("NotYetImplemented",
                             "no idea on how to convert an ipc dictionary batch to an arrow type"),
                 art |-> ""]
           [] h[2].n = HeaderSparseTensor ->
                [res |-> Err("NotYetImplemented",
                             "no idea on how to convert an ipc sparse tensor to an arrow type"),
                 art |-> ""]
           [] OTHER ->
                [res |-> Err("NotYetImplemented",
                             "no idea on how to convert an ipc tensor to an arrow type"),
                 art |-> ""]

\* arrow_data_from_flight_data: art is "RecordBatch" or "Schema" on success,
\* with n the content of the artifact
arrow_data_from_flight_data(flight_data, arrow_schema_ref) ==
    LET h == flight_data.data_header IN
    IF ~root_as_message_ok(h)
    THEN [res |-> Err("ParseError", "Unable to get root as message"), art |-> ""]
    ELSE CASE h[2].n = HeaderRecordBatch ->
                IF read_record_batch_ok(flight_data.data_body, h[3].n)
                THEN [res |-> Ok(h[3].n), art |-> "RecordBatch"]
                ELSE [res |-> Err("IoError", "read_record_batch"), art |-> ""]
           [] h[2].n = HeaderSchema -> [res |-> Ok(h[3].n), art |-> "Schema"]
           [] h[2].n = HeaderDictionaryBatch ->
                [res |-> Err("NotYetImplemented",
                             "no idea on how to convert an ipc dictionary batch to an arrow type"),
                 art |-> ""]
           [] h[2].n = HeaderTensor ->
                [res |-> Err("NotYetImplemented",
                             "no idea on how to convert an ipc tensor to an arrow type"),
                 art |-> ""]
           [] h[2].n = HeaderSparseTensor ->
                [res |-> Err("NotYetImplemented",
                             "no idea on how to convert an ipc sparse tensor to an arrow type"),
                 art |-> ""]
           [] OTHER ->
                [res |-> Err("ComputeError",
                             "Unable to convert message with header_type: '"
                             \o HeaderDebug(h[2].n) \o "' to arrow data"),
                 art |-> ""]

(***************************************************************************)
(* What the server can answer.                                             *)
(***************************************************************************)
Counts == -1..MaxCount

Handles == {Bytes(<<7>>), Bytes(<<8>>)}
Tickets == {Bytes(<<1>>), Bytes(<<2>>)}
Batches == {1, 2}       \* parameter batches the caller can bind

Garbage == Bytes(<<9>>)

\* schema blobs: two well-formed ones; an empty one, a short one, one that
\* ends after the continuation marker, and one whose message is no schema
GoodSchemaBlobs ==
    {SchemaBlob(FbMessage(HeaderSchema, 1)), SchemaBlob(FbMessage(HeaderSchema, 2))}

BadSchemaBlobs ==
    {<<>>, Bytes(<<255, 255>>), Bytes(<<255, 255, 255, 255>>),
     SchemaBlob(FbMessage(HeaderRecordBatch, 1))}

SchemaBlobs == GoodSchemaBlobs \cup BadSchemaBlobs

\* the pairs of schema blobs of which at most one is bad
SchemaBlobPairs ==
    {pair \in SchemaBlobs \X SchemaBlobs :
        pair[1] \in GoodSchemaBlobs \/ pair[2] \in GoodSchemaBlobs}

\* app_metadata of the response frame of a put
Metadatas ==
    {EncodeAny(as_any("DoPutUpdateResult", EncodeDoPutUpdateResult(n))) : n \in Counts}
    \cup {<<>>, Garbage,
          EncodeAny(as_any("CommandStatementQuery", EncodeQuery("SELECT 1"))),
          EncodeAny(as_any("DoPutUpdateResult", Garbage)),
          EncodeAny(as_any("DoPutUpdateResult",
                           <<VarintItem("record_count", 1), VarintItem("other", 3),
                             VarintItem("record_count", 2)>>))}

\* body of the response of the create-prepared-statement action
Bodies ==
    {EncodeAny(as_any("ActionCreatePreparedStatementResult",
                      EncodeCreateResult([prepared_statement_handle |-> h,
                                          dataset_schema |-> pair[1],
                                          parameter_schema |-> pair[2]]))) :
        h \in Handles, pair \in SchemaBlobPairs}
    \cup {<<>>, Garbage,
          EncodeAny(as_any("DoPutUpdateResult", EncodeDoPutUpdateResult(1))),
          EncodeAny(as_any("ActionCreatePreparedStatementResult", Garbage))}

\* what reading one message of a response stream yields: a status, the end
\* of the stream (payload None) or a message (payload Some)
StreamStatus == [kind |-> "Err", opt |-> None]
StreamEnd == [kind |-> "Ok", opt |-> None]
StreamMessage(m) == [kind |-> "Ok", opt |-> Some(m)]

PutResponses ==
    {StreamStatus, StreamEnd}
    \cup {StreamMessage(FlightData(None, <<>>, m, <<>>)) : m \in Metadatas}

ActionResponses ==
    {StreamStatus, StreamEnd} \cup {StreamMessage([body |-> b]) : b \in Bodies}

Endpoint(ticket) == [ticket |-> ticket]
Endpoints == {Endpoint(None)} \cup {Endpoint(Some(k)) : k \in Tickets}

RECURSIVE SeqsUpTo(_, _)
SeqsUpTo(S, n) ==
    IF n = 0 THEN {<<>>}
    ELSE SeqsUpTo(S, n - 1)
         \cup {Append(q, x) : q \in {r \in SeqsUpTo(S, n - 1) : Len(r) = n - 1}, x \in S}

\* a good schema with every list of endpoints, every schema with one endpoint
FlightInfos ==
    {[schema |-> SchemaBlob(FbMessage(HeaderSchema, 1)), endpoint |-> e] :
        e \in SeqsUpTo(Endpoints, MaxEndpoints)}
    \cup {[schema |-> b, endpoint |-> <<Endpoint(Some(k))>>] : b \in SchemaBlobs, k \in Tickets}

FrameHeaders ==
    {FbMessage(HeaderNONE, 0), Garbage, <<>>}
    \cup {FbMessage(ht, 1) : ht \in HeaderSchema..HeaderUnknown}

\* frames without a body of every header, and record batches with their body
Frames ==
    {FlightData(None, h, <<>>, <<>>) : h \in FrameHeaders}
    \cup {FlightData(None, FbMessage(HeaderRecordBatch, k), <<>>, Bytes(<<k>>)) : k \in {1, 2}}

GetResponses == {StreamStatus, StreamEnd} \cup {StreamMessage(f) : f \in Frames}

(***************************************************************************)
(* The values the envelope codec and the frame decoder are called on.      *)
(***************************************************************************)
Strings == {"", "a"}
OptionalStrings == {None} \cup {Some(str) : str \in Strings}
ByteStrings == {<<>>, Bytes(<<7>>)}
SqlInfos == {0, 1}      \* FlightSqlServerName, FlightSqlServerVersion

\* the values of a message type
Values(name) ==
    CASE name \in {"CommandStatementQuery", "CommandStatementUpdate",
                   "ActionCreatePreparedStatementRequest"} -> [query : Strings]
      [] name \in {"CommandPreparedStatementQuery", "CommandPreparedStatementUpdate",
                   "ActionClosePreparedStatementRequest"} ->
            [prepared_statement_handle : ByteStrings]
      [] name = "TicketStatementQuery" -> [statement_handle : ByteStrings]
      [] name = "DoPutUpdateResult" -> [record_count : Counts]
      [] name = "ActionCreatePreparedStatementResult" ->
            [prepared_statement_handle : ByteStrings, dataset_schema : ByteStrings,
             parameter_schema : ByteStrings]
      [] name \in {"CommandGetCatalogs", "CommandGetTableTypes"} -> {<<>>}
      [] name = "CommandGetDbSchemas" ->
            [catalog : OptionalStrings, db_schema_filter_pattern : OptionalStrings]
      [] name = "CommandGetTables" ->
            [catalog : OptionalStrings, db_schema_filter_pattern : OptionalStrings,
             table_name_filter_pattern : OptionalStrings,
             table_types : SeqsUpTo(Strings, MaxRepeat), include_schema : BOOLEAN]
      [] name \in {"CommandGetPrimaryKeys", "CommandGetExportedKeys",
                   "CommandGetImportedKeys"} ->
            [catalog : OptionalStrings, db_schema : OptionalStrings, table : Strings]
      [] name = "CommandGetCrossReference" ->
            [pk_catalog : OptionalStrings, pk_db_schema : OptionalStrings,
             pk_table : Strings, fk_catalog : OptionalStrings,
             fk_db_schema : OptionalStrings, fk_table : Strings]
      [] name = "CommandGetSqlInfo" -> [info : SeqsUpTo(SqlInfos, MaxRepeat)]

\* type tags an envelope from the wire can carry: registered ones, and
\* strings that are near a registered one
TypeUrls ==
    {type_url(name) : name \in {"CommandStatementQuery", "DoPutUpdateResult",
                                "CommandGetSqlInfo", "CommandGetTables"}}
    \cup {"", TypeUrlPrefix, "CommandStatementQuery",
          "type.googleapis.com/CommandStatementQuery",
          type_url("CommandStatementQuery") \o "x",
          "type.googleapis.com/arrow.flight.protocol.sql.commandstatementquery"}

\* payloads an envelope from the wire can carry: encodings, items of a wrong
\* wire type, raw bytes, fields no type has, fields written more than once
Payloads ==
    {<<>>, Garbage, TextBytes("a"),
     <<StrItem("query", "a")>>,
     <<StrItem("query", "a"), StrItem("query", "")>>,
     <<VarintItem("query", 1)>>,
     <<BytesItem("query", Garbage)>>,
     <<VarintItem("record_count", 2)>>,
     <<StrItem("record_count", "a")>>,
     <<VarintItem("other", 3)>>,
     <<VarintItem("info", 1), BytesItem("info", Bytes(<<0, 1>>))>>,
     <<BytesItem("info", Bytes(<<200>>))>>,
     <<StrItem("table_types", "a"), VarintItem("include_schema", 1)>>,
     <<StrItem("include_schema", "a")>>,
     <<VarintItem("record_count", 1), Byte(9)>>}

\* the bytes an envelope is decoded from
AnyBytes ==
    {EncodeAny(ProstAny(url, value)) : url \in TypeUrls, value \in Payloads}
    \cup {Garbage, <<VarintItem("type_url", 1)>>, <<BytesItem("type_url", Garbage)>>}

\* the frames the decoder is called on: every header with every body
FrameBodies == {<<>>, Bytes(<<1>>), Bytes(<<2>>), Garbage \o Garbage}

AllFrames ==
    {FlightData(None, h, <<>>, b) :
        h \in FrameHeaders \cup {FbMessage(ht, 2) : ht \in HeaderSchema..HeaderUnknown}
               \cup {Bytes(<<FbRoot, HeaderRecordBatch, 0>>), Bytes(<<FbRoot, HeaderNONE, 1>>),
                     Bytes(<<0, HeaderSchema, 1>>)},
        b \in FrameBodies}

ArrowSchemas == {1, 2}

\* the requests the caller makes of the read-oriented operations: fields
\* that are absent, fields that are present
DbSchemasRequests == {[catalog |-> None, db_schema_filter_pattern |-> Some("a")]}

TablesRequests ==
    {[catalog |-> Some("a"), db_schema_filter_pattern |-> None,
      table_name_filter_pattern |-> Some(""), table_types |-> <<>>,
      include_schema |-> TRUE]}

KeysRequests == {[catalog |-> None, db_schema |-> Some("a"), table |-> "a"]}

CrossReferenceRequests ==
    {[pk_catalog |-> None, pk_db_schema |-> Some("a"), pk_table |-> "a",
      fk_catalog |-> Some("a"), fk_db_schema |-> None, fk_table |-> ""]}

SqlInfoRequests == {<<>>, <<0, 1>>}

(***************************************************************************)
(* State.                                                                  *)
(***************************************************************************)
VARIABLES
    client,     \* the caller's FlightSqlServiceClient: "none", "live" or "moved"
    borrow,     \* the RefCell around the transport: 0, or the task holding the RefMut
    stmts,      \* the PreparedStatement values, by StmtIds
    tasks,      \* the caller's futures, by TaskIds
    rpcs,       \* the RPCs the transport of this connection has been handed, in order
    fi,         \* the FlightInfo the caller holds (Option)
    printed,    \* the record batches print_flight_data_stream has printed
    crashed,    \* a panic has unwound the caller
    call        \* the call of the envelope codec or of the frame decoder that is
                \* made on values alone: its function, its arguments, its result

vars == <<client, borrow, stmts, tasks, rpcs, fi, printed, crashed, call>>

\* PreparedStatement::new
NewStmt(handle, dataset_schema, parameter_schema) ==
    [alive |-> TRUE, is_closed |-> FALSE, parameter_binding |-> None, handle |-> handle,
     dataset_schema |-> dataset_schema, parameter_schema |-> parameter_schema]

NoStmt ==
    [alive |-> FALSE, is_closed |-> FALSE, parameter_binding |-> None, handle |-> <<>>,
     dataset_schema |-> 0, parameter_schema |-> 0]

\* nothing has been read from the response stream
NoMessage == [kind |-> "", opt |-> None]

\* a future: the operation it runs, its position, the handle it runs on (0:
\* the session), the argument it was called with (the command of a
\* read-oriented operation of the session, the batch of set_parameters), the
\* locals that live across awaits (the schema, the
\* number of frames pulled, what the last read of the response gave), the
\* RPCs it has issued, how its RPC was answered ("Ok": a response, "Err": a
\* status, "": not yet) and, once it has returned, its result
Task(op, pc, s, schema, pulled, sent, res) ==
    [op |-> op, pc |-> pc, s |-> s, cmd |-> <<>>, schema |-> schema, pulled |-> pulled,
     message |-> NoMessage, answer |-> "", sent |-> sent, res |-> res]

IdleTask == Task("", "idle", 0, 0, 0, 0, NoRes)

\* no call on values has been made
NoCall == [fn |-> ""]

Init ==
    /\ client = "none"
    /\ borrow = 0
    /\ stmts = [s \in StmtIds |-> NoStmt]
    /\ tasks = [t \in TaskIds |-> IdleTask]
    /\ rpcs = <<>>
    /\ fi = None
    /\ printed = <<>>
    /\ crashed = FALSE
    /\ call = NoCall

Rpc(rpc, descriptor, frames, action, ticket) ==
    [rpc |-> rpc, descriptor |-> descriptor, frames |-> frames, action |-> action,
     ticket |-> ticket]

NoHandles == \A s \in StmtIds : ~stmts[s].alive

\* a future can be created: the caller passes a FlightInfo on to
\* get_and_print before it calls anything else (parse_cli)
CanStart(t) == ~crashed /\ tasks[t].pc = "idle" /\ fi = None

\* a call that returns at once
Return(t, op, s, r) ==
    /\ tasks' = [tasks EXCEPT ![t] = Task(op, "idle", s, 0, 0, 0, r)]
    /\ crashed' = (r.kind = "Panic")

\* a call returns from the read of a message of its response stream
FinishRead(t, message, r) ==
    /\ tasks' = [tasks EXCEPT ![t].pc = "idle", ![t].res = r, ![t].message = message]
    /\ crashed' = (r.kind = "Panic")

\* a transport behind a cell that hands out its reference without a check
Issue_unchecked(t, op, s, rpc) ==
    /\ borrow' = t
    /\ rpcs' = Append(rpcs, rpc)
    /\ tasks' = [tasks EXCEPT ![t] = Task(op, "rpc", s, 0, 0, 1, NoRes)]
    /\ UNCHANGED crashed

\* mut_client() followed by the RPC: RefCell::borrow_mut panics when the cell
\* is already borrowed; the RefMut lives until the RPC has answered
Issue(t, op, s, rpc) ==
    IF borrow # 0
    THEN /\ Return(t, op, s, Panic("already borrowed: BorrowMutError"))
         /\ UNCHANGED <<borrow, rpcs>>
    ELSE /\ borrow' = t
         /\ rpcs' = Append(rpcs, rpc)
         /\ tasks' = [tasks EXCEPT ![t] = Task(op, "rpc", s, 0, 0, 1, NoRes)]
         /\ UNCHANGED crashed

Awaiting(t, op, pc) == ~crashed /\ tasks[t].op = op /\ tasks[t].pc = pc

\* the RPC a call awaits is answered: a status ("Err") makes the ? operator
\* return it, converted by status_to_arrow_error; after a response ("Ok")
\* the call goes on at pc, or returns r when pc is "idle"
Answer(t, answer, pc, r) ==
    /\ tasks' = [tasks EXCEPT ![t].pc = pc, ![t].answer = answer, ![t].res = r]
    /\ crashed' = (r.kind = "Panic")

(***************************************************************************)
(* The session: FlightSqlServiceClient.                                    *)
(***************************************************************************)
\* new_client: connect, then FlightSqlServiceClient::new
new_client(t) ==
    /\ ~crashed
    /\ tasks[t].pc = "idle"
    /\ NoHandles
    /\ \E connected \in BOOLEAN :
          IF connected
          THEN /\ client' = "live"
               /\ Return(t, "new_client", 0, Ok(0))
          ELSE /\ client' = "none"
               /\ Return(t, "new_client", 0, transport_error_to_arrow_erorr)
    /\ rpcs' = <<>>
    /\ fi' = None
    /\ printed' = <<>>
    /\ UNCHANGED <<borrow, stmts, call>>

\* the read-oriented operations of the session
ReadOps ==
    {"execute", "get_catalogs", "get_db_schemas", "get_tables", "get_primary_keys",
     "get_exported_keys", "get_imported_keys", "get_cross_reference", "get_table_types",
     "get_sql_info"}

\* get_flight_info_for_command() that sends the command without its envelope
get_flight_info_for_command_bare(t, op, name, cmd) ==
    /\ CanStart(t)
    /\ client = "live"
    /\ NoHandles
    /\ Len(rpcs) < MaxReads
    /\ IF borrow # 0
       THEN /\ Return(t, op, 0, Panic("already borrowed: BorrowMutError"))
            /\ UNCHANGED <<borrow, rpcs>>
       ELSE /\ borrow' = t
            /\ rpcs' = Append(rpcs, Rpc("get_flight_info",
                                        Some(new_cmd(encode_to_vec(name, cmd))),
                                        <<>>, None, None))
            /\ tasks' = [tasks EXCEPT ![t] = [Task(op, "rpc", 0, 0, 0, 1, NoRes)
                                                 EXCEPT !.cmd = cmd]]
            /\ UNCHANGED crashed
    /\ UNCHANGED <<client, stmts, fi, printed, call>>

\* get_flight_info_for_command, called by the operation op with the command
\* cmd of the message type `name`, up to the await of get_flight_info: the
\* descriptor of the command's envelope, the borrow of the transport, the RPC
get_flight_info_for_command(t, op, name, cmd) ==
    /\ CanStart(t)
    /\ client = "live"
    /\ NoHandles
    /\ Len(rpcs) < MaxReads
    /\ IF borrow # 0
       THEN /\ Return(t, op, 0, Panic("already borrowed: BorrowMutError"))
            /\ UNCHANGED <<borrow, rpcs>>
       ELSE /\ borrow' = t
            /\ rpcs' = Append(rpcs, Rpc("get_flight_info",
                                        Some(new_cmd(EncodeAny(as_any(name,
                                                                      encode_to_vec(name, cmd))))),
                                        <<>>, None, None))
            /\ tasks' = [tasks EXCEPT ![t] = [Task(op, "rpc", 0, 0, 0, 1, NoRes)
                                                 EXCEPT !.cmd = cmd]]
            /\ UNCHANGED crashed
    /\ UNCHANGED <<client, stmts, fi, printed, call>>

\* FlightSqlServiceClient::execute up to the await of get_flight_info
execute(t, query) ==
    get_flight_info_for_command(t, "execute", "CommandStatementQuery", [query |-> query])

\* FlightSqlServiceClient::get_catalogs
get_catalogs(t) ==
    get_flight_info_for_command(t, "get_catalogs", "CommandGetCatalogs", <<>>)

\* FlightSqlServiceClient::get_db_schemas
get_db_schemas(t, request) ==
    get_flight_info_for_command(t, "get_db_schemas", "CommandGetDbSchemas", request)

\* FlightSqlServiceClient::get_tables
get_tables(t, request) ==
    get_flight_info_for_command(t, "get_tables", "CommandGetTables", request)

\* FlightSqlServiceClient::get_primary_keys
get_primary_keys(t, request) ==
    get_flight_info_for_command(t, "get_primary_keys", "CommandGetPrimaryKeys", request)

\* FlightSqlServiceClient::get_exported_keys
get_exported_keys(t, request) ==
    get_flight_info_for_command(t, "get_exported_keys", "CommandGetExportedKeys", request)

\* FlightSqlServiceClient::get_imported_keys
get_imported_keys(t, request) ==
    get_flight_info_for_command(t, "get_imported_keys", "CommandGetImportedKeys", request)

\* FlightSqlServiceClient::get_cross_reference
get_cross_reference(t, request) ==
    get_flight_info_for_command(t, "get_cross_reference", "CommandGetCrossReference",
                                request)

\* FlightSqlServiceClient::get_table_types
get_table_types(t) ==
    get_flight_info_for_command(t, "get_table_types", "CommandGetTableTypes", <<>>)

\* FlightSqlServiceClient::get_sql_info: the numbers of the SqlInfo values
get_sql_info(t, sql_infos) ==
    get_flight_info_for_command(t, "get_sql_info", "CommandGetSqlInfo",
                                [info |-> [i \in 1..Len(sql_infos) |-> sql_infos[i]]])

\* get_flight_info_for_command from the answer of the RPC on: the status,
\* converted, or the FlightInfo of the response
get_flight_info_for_command_answer(t) ==
    /\ ~crashed
    /\ tasks[t].op \in ReadOps
    /\ tasks[t].pc = "rpc"
    /\ borrow' = 0
    /\ \/ /\ Answer(t, "Err", "idle", status_to_arrow_error)
          /\ UNCHANGED fi
       \/ \E info \in FlightInfos :
             /\ tasks' = [tasks EXCEPT ![t].pc = "idle", ![t].answer = "Ok",
                                       ![t].message = StreamMessage(info),
                                       ![t].res = Ok(0)]
             /\ UNCHANGED crashed
             /\ fi' = Some(info)
    /\ UNCHANGED <<client, stmts, rpcs, printed, call>>

\* the tail of execute_update, of the session and of the handle: the first
\* message of the response stream, its app_metadata as an envelope, the
\* envelope as a DoPutUpdateResult
UpdateResult(message) ==
    IF message.kind = "Err" THEN status_to_arrow_error
    ELSE IF ~IsSome(message.opt) THEN UnwrapNone
    ELSE LET any == DecodeAny(Unwrapped(message.opt).app_metadata) IN
         IF ~any.ok THEN decode_error_to_arrow_error
         ELSE LET result == unpack(any.v, "DoPutUpdateResult",
                                     DecodeDoPutUpdateResult(any.v.value)) IN
              IF result.kind = "Err" THEN Err("ParseError", "Unable to decode Any value")
              ELSE IF ~IsSome(result.opt) THEN UnwrapNone
              ELSE Ok(Unwrapped(result.opt).record_count)

\* execute_update() that sends the query command
execute_update_query_cmd(t, query) ==
    /\ CanStart(t)
    /\ client = "live"
    /\ NoHandles
    /\ Len(rpcs) < MaxRpcs
    /\ Issue(t, "execute_update", 0,
             Rpc("do_put", None,
                 <<PutFrame(new_cmd(EncodeAny(as_any("CommandStatementQuery",
                                                     EncodeQuery(query)))))>>,
                 None, None))
    /\ UNCHANGED <<client, stmts, fi, printed, call>>

\* FlightSqlServiceClient::execute_update up to the await of do_put
execute_update(t, query) ==
    /\ CanStart(t)
    /\ client = "live"
    /\ NoHandles
    /\ Len(rpcs) < MaxRpcs
    /\ Issue(t, "execute_update", 0,
             Rpc("do_put", None,
                 <<PutFrame(new_cmd(EncodeAny(as_any("CommandStatementUpdate",
                                                     EncodeQuery(query)))))>>,
                 None, None))
    /\ UNCHANGED <<client, stmts, fi, printed, call>>

\* execute_update() that sends its put once more when the first is refused
execute_update_answer_retries(t) ==
    /\ Awaiting(t, "execute_update", "rpc")
    /\ tasks[t].s = 0
    /\ \/ /\ tasks[t].sent < 2
          /\ Len(rpcs) < MaxRpcs
          /\ rpcs' = Append(rpcs, rpcs[Len(rpcs)])
          /\ tasks' = [tasks EXCEPT ![t].sent = @ + 1, ![t].answer = "Err"]
          /\ UNCHANGED <<borrow, crashed>>
       \/ /\ borrow' = 0
          /\ Answer(t, "Err", "idle", status_to_arrow_error)
          /\ UNCHANGED rpcs
       \/ /\ borrow' = 0
          /\ Answer(t, "Ok", "message", NoRes)
          /\ UNCHANGED rpcs
    /\ UNCHANGED <<client, stmts, fi, printed, call>>

\* execute_update from the answer of do_put to the await of the first message
execute_update_answer(t) ==
    /\ Awaiting(t, "execute_update", "rpc")
    /\ tasks[t].s = 0
    /\ borrow' = 0
    /\ \/ Answer(t, "Err", "idle", status_to_arrow_error)
       \/ Answer(t, "Ok", "message", NoRes)
    /\ UNCHANGED <<client, stmts, rpcs, fi, printed, call>>

\* execute_update from the first message of the response stream on
execute_update_message(t) ==
    /\ Awaiting(t, "execute_update", "message")
    /\ tasks[t].s = 0
    /\ \E message \in PutResponses : FinishRead(t, message, UpdateResult(message))
    /\ UNCHANGED <<client, borrow, stmts, rpcs, fi, printed, call>>

\* the tail of prepare: the first message of the response stream, its body
\* as an envelope, the envelope as an ActionCreatePreparedStatementResult,
\* the two schema blobs; `stmt` is the handle prepare returns on success
PrepareResult(message) ==
    IF message.kind = "Err" THEN [res |-> status_to_arrow_error, stmt |-> NoStmt]
    ELSE IF ~IsSome(message.opt) THEN [res |-> UnwrapNone, stmt |-> NoStmt]
    ELSE LET any == DecodeAny(Unwrapped(message.opt).body) IN
         IF ~any.ok THEN [res |-> decode_error_to_arrow_error, stmt |-> NoStmt]
         ELSE LET prepared_result == unpack(any.v, "ActionCreatePreparedStatementResult",
                                            DecodeCreateResult(any.v.value)) IN
              IF prepared_result.kind = "Err"
              THEN [res |-> Err("ParseError", "Unable to decode Any value"), stmt |-> NoStmt]
              ELSE IF ~IsSome(prepared_result.opt) THEN [res |-> UnwrapNone, stmt |-> NoStmt]
              ELSE LET r == Unwrapped(prepared_result.opt)
                       dataset_schema == SchemaTryFrom(r.dataset_schema)
                       parameter_schema == SchemaTryFrom(r.parameter_schema)
                   IN IF dataset_schema.kind # "Ok"
                      THEN [res |-> dataset_schema, stmt |-> NoStmt]
                      ELSE IF parameter_schema.kind # "Ok"
                      THEN [res |-> parameter_schema, stmt |-> NoStmt]
                      ELSE [res |-> Ok(0),
                            stmt |-> NewStmt(r.prepared_statement_handle,
                                             dataset_schema.n, parameter_schema.n)]

\* FlightSqlServiceClient::prepare up to the await of do_action
prepare(t, query) ==
    /\ CanStart(t)
    /\ client = "live"
    /\ NoHandles
    /\ Len(rpcs) < MaxRpcs
    /\ Issue(t, "prepare", 0,
             Rpc("do_action", None, <<>>,
                 Some([type |-> "CreatePreparedStatement",
                       body |-> EncodeAny(as_any("ActionCreatePreparedStatementRequest",
                                                 EncodeQuery(query)))]),
                 None))
    /\ UNCHANGED <<client, stmts, fi, printed, call>>

\* prepare from the answer of do_action to the await of the first message
prepare_answer(t) ==
    /\ Awaiting(t, "prepare", "rpc")
    /\ borrow' = 0
    /\ \/ Answer(t, "Err", "idle", status_to_arrow_error)
       \/ Answer(t, "Ok", "message", NoRes)
    /\ UNCHANGED <<client, stmts, rpcs, fi, printed, call>>

\* prepare from the first message of the response stream on
prepare_message(t) ==
    /\ Awaiting(t, "prepare", "message")
    /\ \E message \in ActionResponses :
          /\ FinishRead(t, message, PrepareResult(message).res)
          /\ stmts' = IF PrepareResult(message).res.kind = "Ok"
                      THEN [stmts EXCEPT ![1] = PrepareResult(message).stmt]
                      ELSE stmts
    /\ UNCHANGED <<client, borrow, rpcs, fi, printed, call>>

\* the RPC of do_get: the ticket and nothing else
TicketGet(ticket) == Rpc("do_get", None, <<>>, None, Some(ticket))

\* do_get() that refuses a ticket this connection has already sent
do_get_once(t, ticket) ==
    /\ CanStart(t)
    /\ client = "live"
    /\ NoHandles
    /\ Len(rpcs) < MaxReads
    /\ IF \E i \in 1..Len(rpcs) : rpcs[i] = TicketGet(ticket)
       THEN /\ Return(t, "do_get", 0, Err("IoError", "ticket already used"))
            /\ UNCHANGED <<borrow, rpcs>>
       ELSE Issue(t, "do_get", 0, TicketGet(ticket))
    /\ UNCHANGED <<client, stmts, fi, printed, call>>

\* FlightSqlServiceClient::do_get up to the await of the RPC
do_get(t, ticket) ==
    /\ CanStart(t)
    /\ client = "live"
    /\ NoHandles
    /\ Len(rpcs) < MaxReads
    /\ Issue(t, "do_get", 0, TicketGet(ticket))
    /\ UNCHANGED <<client, stmts, fi, printed, call>>

\* do_get from the answer of the RPC on: the status, converted, or the stream
do_get_answer(t) ==
    /\ Awaiting(t, "do_get", "rpc")
    /\ borrow' = 0
    /\ \/ Answer(t, "Err", "idle", status_to_arrow_error)
       \/ Answer(t, "Ok", "idle", Ok(0))
    /\ UNCHANGED <<client, stmts, rpcs, fi, printed, call>>

\* FlightSqlServiceClient::close
session_close(t) ==
    /\ CanStart(t)
    /\ client = "live"
    /\ NoHandles
    /\ Return(t, "session_close", 0, Ok(0))
    /\ UNCHANGED <<client, borrow, stmts, rpcs, fi, printed, call>>

(***************************************************************************)
(* The prepared-statement handle: PreparedStatement.                       *)
(***************************************************************************)
\* PreparedStatement::is_closed
is_closed(s) == stmts[s].is_closed

\* the caller asks is_closed
stmt_is_closed(t, s) ==
    /\ CanStart(t)
    /\ stmts[s].alive
    /\ Return(t, "is_closed", s, Ok(IF is_closed(s) THEN 1 ELSE 0))
    /\ UNCHANGED <<client, borrow, stmts, rpcs, fi, printed, call>>

\* derive(Clone): a copy of every field, the same &RefCell
stmt_clone(t, s, d) ==
    /\ CanStart(t)
    /\ stmts[s].alive
    /\ ~stmts[d].alive
    /\ stmts' = [stmts EXCEPT ![d] = stmts[s]]
    /\ Return(t, "clone", s, Ok(0))
    /\ UNCHANGED <<client, borrow, rpcs, fi, printed, call>>

\* the caller drops a handle
stmt_drop(t, s) ==
    /\ CanStart(t)
    /\ stmts[s].alive
    /\ \A u \in TaskIds : tasks[u].pc = "idle"
    /\ stmts' = [stmts EXCEPT ![s] = NoStmt]
    /\ Return(t, "drop", s, Ok(0))
    /\ UNCHANGED <<client, borrow, rpcs, fi, printed, call>>

\* the command a handle's put carries
PreparedPut(name, s) ==
    Rpc("do_put", None,
        <<PutFrame(new_cmd(EncodeAny(as_any(name, EncodeHandle(stmts[s].handle)))))>>,
        None, None)

\* PreparedStatement::execute up to the await of do_put
stmt_execute(t, s) ==
    /\ CanStart(t)
    /\ stmts[s].alive
    /\ IF is_closed(s)
       THEN /\ Return(t, "stmt_execute", s, AlreadyClosed)
            /\ UNCHANGED <<borrow, rpcs>>
       ELSE /\ Len(rpcs) < MaxRpcs
            /\ Issue(t, "stmt_execute", s, PreparedPut("CommandPreparedStatementQuery", s))
    /\ UNCHANGED <<client, stmts, fi, printed, call>>

\* PreparedStatement::execute from the answer of do_put to the await of the
\* first message
stmt_execute_answer(t) ==
    /\ Awaiting(t, "stmt_execute", "rpc")
    /\ borrow' = 0
    /\ \/ Answer(t, "Err", "idle", status_to_arrow_error)
       \/ Answer(t, "Ok", "message", NoRes)
    /\ UNCHANGED <<client, stmts, rpcs, fi, printed, call>>

\* execute() that returns once the envelope is read
ExecuteResult_returns(message) ==
    IF message.kind = "Err" THEN status_to_arrow_error
    ELSE IF ~IsSome(message.opt) THEN UnwrapNone
    ELSE IF ~DecodeAny(Unwrapped(message.opt).app_metadata).ok
    THEN decode_error_to_arrow_error
    ELSE Ok(0)

\* the tail of PreparedStatement::execute
ExecuteResult(message) ==
    IF message.kind = "Err" THEN status_to_arrow_error
    ELSE IF ~IsSome(message.opt) THEN UnwrapNone
    ELSE IF ~DecodeAny(Unwrapped(message.opt).app_metadata).ok
    THEN decode_error_to_arrow_error
    ELSE Err("NotYetImplemented", "Not yet implemented")

\* PreparedStatement::execute from the first message of the response stream on
stmt_execute_message(t) ==
    /\ Awaiting(t, "stmt_execute", "message")
    /\ \E message \in PutResponses : FinishRead(t, message, ExecuteResult(message))
    /\ UNCHANGED <<client, borrow, stmts, rpcs, fi, printed, call>>

\* PreparedStatement::execute_update up to the await of do_put
stmt_execute_update(t, s) ==
    /\ CanStart(t)
    /\ stmts[s].alive
    /\ IF is_closed(s)
       THEN /\ Return(t, "stmt_execute_update", s, AlreadyClosed)
            /\ UNCHANGED <<borrow, rpcs>>
       ELSE /\ Len(rpcs) < MaxRpcs
            /\ Issue(t, "stmt_execute_update", s,
                     PreparedPut("CommandPreparedStatementQuery", s))
    /\ UNCHANGED <<client, stmts, fi, printed, call>>

\* PreparedStatement::execute_update from the answer of do_put to the await
\* of the first message
stmt_execute_update_answer(t) ==
    /\ Awaiting(t, "stmt_execute_update", "rpc")
    /\ borrow' = 0
    /\ \/ Answer(t, "Err", "idle", status_to_arrow_error)
       \/ Answer(t, "Ok", "message", NoRes)
    /\ UNCHANGED <<client, stmts, rpcs, fi, printed, call>>

\* execute_update() that consumes the bound parameters
stmt_execute_update_message_takes(t) ==
    /\ Awaiting(t, "stmt_execute_update", "message")
    /\ \E message \in PutResponses : FinishRead(t, message, UpdateResult(message))
    /\ stmts' = [stmts EXCEPT ![tasks[t].s].parameter_binding = None]
    /\ UNCHANGED <<client, borrow, rpcs, fi, printed, call>>

\* PreparedStatement::execute_update from the first message on
stmt_execute_update_message(t) ==
    /\ Awaiting(t, "stmt_execute_update", "message")
    /\ \E message \in PutResponses : FinishRead(t, message, UpdateResult(message))
    /\ UNCHANGED <<client, borrow, stmts, rpcs, fi, printed, call>>

\* PreparedStatement::parameter_schema
parameter_schema(t, s) ==
    /\ CanStart(t)
    /\ stmts[s].alive
    /\ Return(t, "parameter_schema", s, Ok(stmts[s].parameter_schema))
    /\ UNCHANGED <<client, borrow, stmts, rpcs, fi, printed, call>>

\* PreparedStatement::dataset_schema
dataset_schema(t, s) ==
    /\ CanStart(t)
    /\ stmts[s].alive
    /\ Return(t, "dataset_schema", s, Ok(stmts[s].dataset_schema))
    /\ UNCHANGED <<client, borrow, stmts, rpcs, fi, printed, call>>

\* set_parameters() that takes only a batch of the parameter schema
set_parameters_validates(t, s, parameter_binding) ==
    /\ CanStart(t)
    /\ stmts[s].alive
    /\ IF parameter_binding = stmts[s].parameter_schema
       THEN /\ stmts' = [stmts EXCEPT ![s].parameter_binding = Some(parameter_binding)]
            /\ tasks' = [tasks EXCEPT ![t] = [Task("set_parameters", "idle", s, 0, 0, 0, Ok(0))
                                                 EXCEPT !.cmd = Some(parameter_binding)]]
       ELSE /\ UNCHANGED stmts
            /\ tasks' = [tasks EXCEPT ![t] = [Task("set_parameters", "idle", s, 0, 0, 0,
                                                    Err("InvalidArgumentError", "schema"))
                                                 EXCEPT !.cmd = Some(parameter_binding)]]
    /\ UNCHANGED <<client, borrow, rpcs, fi, printed, crashed, call>>

\* PreparedStatement::set_parameters; the future keeps the batch it was
\* called with
set_parameters(t, s, parameter_binding) ==
    /\ CanStart(t)
    /\ stmts[s].alive
    /\ stmts' = [stmts EXCEPT ![s].parameter_binding = Some(parameter_binding)]
    /\ tasks' = [tasks EXCEPT ![t] = [Task("set_parameters", "idle", s, 0, 0, 0, Ok(0))
                                          EXCEPT !.cmd = Some(parameter_binding)]]
    /\ UNCHANGED <<client, borrow, rpcs, fi, printed, crashed, call>>

\* close() that succeeds again on a closed handle
stmt_close_idempotent(t, s) ==
    /\ CanStart(t)
    /\ stmts[s].alive
    /\ IF is_closed(s)
       THEN /\ Return(t, "stmt_close", s, Ok(0))
            /\ UNCHANGED <<borrow, rpcs>>
       ELSE /\ Len(rpcs) < MaxRpcs
            /\ Issue(t, "stmt_close", s,
                     Rpc("do_action", None, <<>>,
                         Some([type |-> "ClosePreparedStatement",
                               body |-> EncodeAny(as_any("ActionClosePreparedStatementRequest",
                                                         EncodeHandle(stmts[s].handle)))]),
                         None))
    /\ UNCHANGED <<client, stmts, fi, printed, call>>

\* PreparedStatement::close up to the await of do_action
stmt_close(t, s) ==
    /\ CanStart(t)
    /\ stmts[s].alive
    /\ IF is_closed(s)
       THEN /\ Return(t, "stmt_close", s, AlreadyClosed)
            /\ UNCHANGED <<borrow, rpcs>>
       ELSE /\ Len(rpcs) < MaxRpcs
            /\ Issue(t, "stmt_close", s,
                     Rpc("do_action", None, <<>>,
                         Some([type |-> "ClosePreparedStatement",
                               body |-> EncodeAny(as_any("ActionClosePreparedStatementRequest",
                                                         EncodeHandle(stmts[s].handle)))]),
                         None))
    /\ UNCHANGED <<client, stmts, fi, printed, call>>

\* close() that marks the handle closed before it looks at the answer
stmt_close_answer_eager(t) ==
    /\ Awaiting(t, "stmt_close", "rpc")
    /\ borrow' = 0
    /\ stmts' = [stmts EXCEPT ![tasks[t].s].is_closed = TRUE]
    /\ \/ Answer(t, "Err", "idle", status_to_arrow_error)
       \/ Answer(t, "Ok", "idle", Ok(0))
    /\ UNCHANGED <<client, rpcs, fi, printed, call>>

\* PreparedStatement::close from the answer of do_action on
stmt_close_answer(t) ==
    /\ Awaiting(t, "stmt_close", "rpc")
    /\ borrow' = 0
    /\ \/ /\ Answer(t, "Err", "idle", status_to_arrow_error)
          /\ UNCHANGED stmts
       \/ /\ stmts' = [stmts EXCEPT ![tasks[t].s].is_closed = TRUE]
          /\ Answer(t, "Ok", "idle", Ok(0))
    /\ UNCHANGED <<client, rpcs, fi, printed, call>>

(***************************************************************************)
(* The retrieval step of the front end: get_and_print and                  *)
(* print_flight_data_stream.                                               *)
(***************************************************************************)
\* a selection that falls back on the default ticket when there is no endpoint
FirstTicket_default(info) ==
    IF info.endpoint = <<>>
    THEN [res |-> Ok(0), ticket |-> <<>>]
    ELSE IF ~IsSome(info.endpoint[1].ticket)
    THEN [res |-> Err("ComputeError", "Failed to get first ticket"), ticket |-> <<>>]
    ELSE [res |-> Ok(0), ticket |-> Unwrapped(info.endpoint[1].ticket)]

\* a selection that takes the last endpoint
FirstTicket_last(info) ==
    IF info.endpoint = <<>>
    THEN [res |-> Err("ComputeError", "Failed to get first endpoint"), ticket |-> <<>>]
    ELSE IF ~IsSome(info.endpoint[Len(info.endpoint)].ticket)
    THEN [res |-> Err("ComputeError", "Failed to get first ticket"), ticket |-> <<>>]
    ELSE [res |-> Ok(0), ticket |-> Unwrapped(info.endpoint[Len(info.endpoint)].ticket)]

\* the first lines of get_and_print: the first endpoint and its ticket
FirstTicket(info) ==
    IF info.endpoint = <<>>
    THEN [res |-> Err("ComputeError", "Failed to get first endpoint"), ticket |-> <<>>]
    ELSE IF ~IsSome(info.endpoint[1].ticket)
    THEN [res |-> Err("ComputeError", "Failed to get first ticket"), ticket |-> <<>>]
    ELSE [res |-> Ok(0), ticket |-> Unwrapped(info.endpoint[1].ticket)]

\* get_and_print up to the await of do_get; the client and the FlightInfo are
\* moved into the call
get_and_print(t) ==
    /\ ~crashed
    /\ tasks[t].pc = "idle"
    /\ client = "live"
    /\ IsSome(fi)
    /\ NoHandles
    /\ client' = "moved"
    /\ printed' = <<>>
    /\ LET first_ticket == FirstTicket(Unwrapped(fi)) IN
       IF first_ticket.res.kind # "Ok"
       THEN /\ Return(t, "get_and_print", 0, first_ticket.res)
            /\ fi' = None
            /\ UNCHANGED <<borrow, rpcs>>
       ELSE /\ Len(rpcs) < MaxRpcs
            /\ Issue(t, "get_and_print", 0,
                     Rpc("do_get", None, <<>>, None, Some(first_ticket.ticket)))
            /\ UNCHANGED fi
    /\ UNCHANGED <<stmts, call>>

\* get_and_print from the answer of do_get to the first await of
\* print_flight_data_stream
get_and_print_answer(t) ==
    /\ Awaiting(t, "get_and_print", "rpc")
    /\ borrow' = 0
    /\ \/ /\ Answer(t, "Err", "idle", status_to_arrow_error)
          /\ fi' = None
       \/ LET arrow_schema == arrow_schema_from_flight_info(Unwrapped(fi)) IN
          IF arrow_schema.kind # "Ok"
          THEN /\ Answer(t, "Ok", "idle", arrow_schema)
               /\ fi' = None
          ELSE /\ tasks' = [tasks EXCEPT ![t].pc = "message", ![t].answer = "Ok",
                                          ![t].schema = arrow_schema.n]
               /\ UNCHANGED <<crashed, fi>>
    /\ UNCHANGED <<client, stmts, rpcs, printed, call>>

\* a consumer that takes a schema frame for the end of the stream
print_flight_data_stream_until_schema(t) ==
    /\ Awaiting(t, "get_and_print", "message")
    /\ \E message \in GetResponses :
          IF message.kind = "Err"
          THEN /\ FinishRead(t, message, status_to_arrow_error)
               /\ fi' = None
               /\ UNCHANGED printed
          ELSE IF ~IsSome(message.opt)
          THEN /\ FinishRead(t, message, Ok(0))
               /\ fi' = None
               /\ UNCHANGED printed
          ELSE LET arrow_data == arrow_data_from_flight_data(Unwrapped(message.opt),
                                                             tasks[t].schema) IN
               /\ tasks[t].pulled < MaxFrames
               /\ IF arrow_data.res.kind # "Ok"
                  THEN /\ FinishRead(t, message, arrow_data.res)
                       /\ fi' = None
                       /\ UNCHANGED printed
                  ELSE IF arrow_data.art = "Schema"
                  THEN /\ FinishRead(t, message, Ok(0))
                       /\ fi' = None
                       /\ UNCHANGED printed
                  ELSE /\ tasks' = [tasks EXCEPT ![t].pulled = @ + 1, ![t].message = message]
                       /\ printed' = Append(printed, [schema |-> tasks[t].schema,
                                                      batch |-> arrow_data.res.n])
                       /\ UNCHANGED <<crashed, fi>>
    /\ UNCHANGED <<client, borrow, stmts, rpcs, call>>

\* a consumer that drops a frame it cannot decode and reads on
print_flight_data_stream_skips(t) ==
    /\ Awaiting(t, "get_and_print", "message")
    /\ \E message \in GetResponses :
          IF message.kind = "Err"
          THEN /\ FinishRead(t, message, status_to_arrow_error)
               /\ fi' = None
               /\ UNCHANGED printed
          ELSE IF ~IsSome(message.opt)
          THEN /\ FinishRead(t, message, Ok(0))
               /\ fi' = None
               /\ UNCHANGED printed
          ELSE LET arrow_data == arrow_data_from_flight_data(Unwrapped(message.opt),
                                                             tasks[t].schema) IN
               /\ tasks[t].pulled < MaxFrames
               /\ tasks' = [tasks EXCEPT ![t].pulled = @ + 1, ![t].message = message]
               /\ printed' = IF arrow_data.art = "RecordBatch"
                             THEN Append(printed, [schema |-> tasks[t].schema,
                                                   batch |-> arrow_data.res.n])
                             ELSE printed
               /\ UNCHANGED <<crashed, fi>>
    /\ UNCHANGED <<client, borrow, stmts, rpcs, call>>

\* one turn of the loop of print_flight_data_stream: the next message of the
\* stream, decoded, and printed when it is a record batch
print_flight_data_stream(t) ==
    /\ Awaiting(t, "get_and_print", "message")
    /\ \E message \in GetResponses :
          IF message.kind = "Err"
          THEN /\ FinishRead(t, message, status_to_arrow_error)
               /\ fi' = None
               /\ UNCHANGED printed
          ELSE IF ~IsSome(message.opt)
          THEN /\ FinishRead(t, message, Ok(0))
               /\ fi' = None
               /\ UNCHANGED printed
          ELSE LET arrow_data == arrow_data_from_flight_data(Unwrapped(message.opt),
                                                             tasks[t].schema) IN
               /\ tasks[t].pulled < MaxFrames
               /\ IF arrow_data.res.kind # "Ok"
                  THEN /\ FinishRead(t, message, arrow_data.res)
                       /\ fi' = None
                       /\ UNCHANGED printed
                  ELSE /\ tasks' = [tasks EXCEPT ![t].pulled = @ + 1, ![t].message = message]
                       /\ printed' = IF arrow_data.art = "RecordBatch"
                                     THEN Append(printed, [schema |-> tasks[t].schema,
                                                           batch |-> arrow_data.res.n])
                                     ELSE printed
                       /\ UNCHANGED <<crashed, fi>>
    /\ UNCHANGED <<client, borrow, stmts, rpcs, call>>

(***************************************************************************)
(* Calls on values: the envelope codec and the frame decoder take no part  *)
(* in the state of the session.                                            *)
(***************************************************************************)
\* ProstAnyExt::pack of the value c of the message type `name`
pack_call(name, c) ==
    /\ call.fn = ""
    /\ call' = [fn |-> "pack", ok |-> TRUE, M |-> name, message |-> c,
                any |-> pack(name, encode_to_vec(name, c))]
    /\ UNCHANGED <<client, borrow, stmts, tasks, rpcs, fi, printed, crashed>>

\* prost::Message::decode of bytes from the wire as an envelope
decode_call(bytes) ==
    /\ call.fn = ""
    /\ call' = [fn |-> "decode", ok |-> DecodeAny(bytes).ok, M |-> "", message |-> <<>>,
                any |-> IF DecodeAny(bytes).ok THEN DecodeAny(bytes).v
                        ELSE ProstAny("", <<>>)]
    /\ UNCHANGED <<client, borrow, stmts, tasks, rpcs, fi, printed, crashed>>

\* ProstAnyExt::unpack::<T> of the envelope the caller holds
unpack_call(T) ==
    /\ call.fn \in {"pack", "decode"}
    /\ call.ok
    /\ call' = [fn |-> "unpack", ok |-> TRUE, M |-> call.M, message |-> call.message,
                any |-> call.any, T |-> T,
                result |-> unpack(call.any, T, decode(T, call.any.value))]
    /\ UNCHANGED <<client, borrow, stmts, tasks, rpcs, fi, printed, crashed>>

\* arrow_data_from_flight_data of a frame and a schema
arrow_data_call(flight_data, arrow_schema_ref) ==
    /\ call.fn = ""
    /\ call' = [fn |-> "arrow_data_from_flight_data", flight_data |-> flight_data,
                arrow_schema_ref |-> arrow_schema_ref,
                result |-> arrow_data_from_flight_data(flight_data, arrow_schema_ref)]
    /\ UNCHANGED <<client, borrow, stmts, tasks, rpcs, fi, printed, crashed>>

NextSession(t) ==
    \/ new_client(t)
    \/ \E query \in Queries : execute(t, query)
    \/ get_flight_info_for_command_answer(t)
    \/ \E query \in Queries : execute_update(t, query)
    \/ execute_update_answer(t)
    \/ execute_update_message(t)
    \/ \E query \in Queries : prepare(t, query)
    \/ prepare_answer(t)
    \/ prepare_message(t)
    \/ session_close(t)

NextStmt(t) ==
    \/ \E s \in StmtIds : stmt_is_closed(t, s)
    \/ \E s \in StmtIds : stmt_drop(t, s)
    \/ \E s \in StmtIds : stmt_execute(t, s)
    \/ stmt_execute_answer(t)
    \/ stmt_execute_message(t)
    \/ \E s \in StmtIds : stmt_execute_update(t, s)
    \/ stmt_execute_update_answer(t)
    \/ stmt_execute_update_message(t)
    \/ \E s \in StmtIds : parameter_schema(t, s)
    \/ \E s \in StmtIds : dataset_schema(t, s)
    \/ \E s \in StmtIds, b \in Batches : set_parameters(t, s, b)
    \/ \E s \in StmtIds : stmt_close(t, s)
    \/ stmt_close_answer(t)

NextRetrieval(t) ==
    \/ get_and_print(t)
    \/ get_and_print_answer(t)
    \/ print_flight_data_stream(t)

\* a caller that holds one handle and awaits each call before the next
Next == NextSession(1) \/ NextStmt(1) \/ NextRetrieval(1)

Spec == Init /\ [][Next]_vars

\* a caller that describes and fetches: the read-oriented operations of the
\* session and do_get, each awaited before the next
NextRead(t) ==
    \/ new_client(t)
    \/ \E query \in Queries : execute(t, query)
    \/ get_catalogs(t)
    \/ \E request \in DbSchemasRequests : get_db_schemas(t, request)
    \/ \E request \in TablesRequests : get_tables(t, request)
    \/ \E request \in KeysRequests : get_primary_keys(t, request)
    \/ \E request \in KeysRequests : get_exported_keys(t, request)
    \/ \E request \in KeysRequests : get_imported_keys(t, request)
    \/ \E request \in CrossReferenceRequests : get_cross_reference(t, request)
    \/ get_table_types(t)
    \/ \E sql_infos \in SqlInfoRequests : get_sql_info(t, sql_infos)
    \/ get_flight_info_for_command_answer(t)
    \/ \E ticket \in Tickets : do_get(t, ticket)
    \/ do_get_answer(t)

SpecRead == Init /\ [][NextRead(1)]_vars

\* a caller that runs one query after the other: a connection, the query,
\* the retrieval of its result
NextFetch(t) ==
    \/ new_client(t)
    \/ \E query \in Queries : execute(t, query)
    \/ get_flight_info_for_command_answer(t)
    \/ get_and_print(t)
    \/ get_and_print_answer(t)
    \/ print_flight_data_stream(t)

SpecFetch == Init /\ [][NextFetch(1)]_vars

\* a caller that holds a handle and its clone and polls two futures in turn
\* on its thread: execute_update on the one and on the other
NextShare ==
    \/ new_client(1)
    \/ \E query \in Queries : prepare(1, query)
    \/ prepare_answer(1)
    \/ prepare_message(1)
    \/ stmt_clone(1, 1, 2)
    \/ \E t \in TaskIds : stmt_execute_update(t, t)
    \/ \E t \in TaskIds : stmt_execute_update_answer(t)
    \/ \E t \in TaskIds : stmt_execute_update_message(t)

SpecShare == Init /\ [][NextShare]_vars

\* the calls on values, each on every input of the sets above
NextPure ==
    \/ \E name \in MessageNames : \E c \in Values(name) : pack_call(name, c)
    \/ \E bytes \in AnyBytes : decode_call(bytes)
    \/ \E T \in MessageNames : unpack_call(T)
    \/ \E flight_data \in AllFrames, arrow_schema_ref \in ArrowSchemas :
          arrow_data_call(flight_data, arrow_schema_ref)

SpecPure == Init /\ [][NextPure]_vars

(***************************************************************************)
(* Properties.                                                             *)
(***************************************************************************)
\* task t calls operation op on handle s in this step
Calls(t, op, s) ==
    /\ tasks[t].pc = "idle"
    /\ tasks'[t].op = op
    /\ tasks'[t].s = s
    /\ tasks'[t] # tasks[t]

\* task t returns from operation op in this step
Returns(t, op) ==
    /\ tasks'[t].op = op
    /\ tasks'[t].pc = "idle"
    /\ tasks'[t] # tasks[t]

\* the same handle is in slot s before and after the step
Stays(s) == stmts[s].alive /\ stmts'[s].alive

\* the envelope of a message type around a payload, as it is on the wire
Envelope(name, payload) ==
    <<StrItem("type_url", "type.googleapis.com/arrow.flight.protocol.sql." \o name)>>
    \o (IF payload = <<>> THEN <<>> ELSE <<BytesItem("value", payload)>>)

\* the put of one frame that carries nothing but a command descriptor
CommandPut(cmd) ==
    [rpc |-> "do_put", descriptor |-> <<>>,
     frames |-> <<[flight_descriptor |-> <<[type |-> "Cmd", cmd |-> cmd, path |-> <<>>]>>,
                   data_header |-> <<>>, app_metadata |-> <<>>, data_body |-> <<>>]>>,
     action |-> <<>>, ticket |-> <<>>]

IllegalState == [kind |-> "Err", err |-> "IoError", msg |-> "Statement already closed.", n |-> 0]

\* C1: once close() has returned success on a handle, the handle is closed and
\* stays closed, and every call of execute(), execute_update() or close() on a
\* closed handle returns the illegal-state error at once and hands no RPC to
\* the transport.
C1_ClosedHandleRejects ==
    [][\A t \in TaskIds, s \in StmtIds :
          /\ (Returns(t, "stmt_close") /\ tasks[t].s = s /\ tasks'[t].res.kind = "Ok")
                => stmts'[s].alive /\ stmts'[s].is_closed
          /\ (Stays(s) /\ stmts[s].is_closed) => stmts'[s].is_closed
          /\ \A op \in {"stmt_execute", "stmt_execute_update", "stmt_close"} :
                (Calls(t, op, s) /\ stmts[s].is_closed)
                   => /\ tasks'[t].pc = "idle"
                      /\ tasks'[t].res = IllegalState
                      /\ tasks'[t].sent = 0
                      /\ rpcs' = rpcs]_vars

\* C1 witness: prepare, then close (acknowledged), then a second close that
\* has failed with the illegal-state error
C1_Witness ==
    /\ Len(rpcs) = 2
    /\ rpcs[1].rpc = "do_action" /\ rpcs[1].action[1].type = "CreatePreparedStatement"
    /\ rpcs[2].rpc = "do_action" /\ rpcs[2].action[1].type = "ClosePreparedStatement"
    /\ tasks[1].op = "stmt_close" /\ tasks[1].pc = "idle"
    /\ tasks[1].res = IllegalState
    /\ stmts[tasks[1].s].is_closed

\* C2: the closed flag of a handle changes only in the step in which close()
\* returns success after the acknowledgement of its RPC, and only from false
\* to true; a close() whose RPC fails returns the error and leaves the handle
\* as it was, and a close() on an open handle is not rejected but sent.
C2_ClosedFlagOnlyByAcknowledgedClose ==
    [][\A s \in StmtIds :
          /\ (Stays(s) /\ stmts'[s].is_closed # stmts[s].is_closed)
                => /\ ~stmts[s].is_closed
                   /\ stmts'[s].is_closed
                   /\ \E t \in TaskIds :
                         /\ tasks[t].op = "stmt_close" /\ tasks[t].pc = "rpc"
                         /\ tasks[t].s = s
                         /\ tasks'[t].pc = "idle" /\ tasks'[t].res.kind = "Ok"
          /\ \A t \in TaskIds :
                /\ (Returns(t, "stmt_close") /\ tasks[t].s = s /\ tasks'[t].res.kind # "Ok")
                      => stmts' = stmts
                /\ (Calls(t, "stmt_close", s) /\ ~stmts[s].is_closed)
                      => /\ tasks'[t].res # IllegalState
                         /\ stmts' = stmts
                         /\ (borrow = 0 => tasks'[t].pc = "rpc" /\ Len(rpcs') = Len(rpcs) + 1)]_vars

\* C2 witness: a close whose RPC failed, and a second close on the handle,
\* still open, that the transport has been handed
C2_Witness ==
    /\ Len(rpcs) = 3
    /\ rpcs[2].rpc = "do_action" /\ rpcs[2].action[1].type = "ClosePreparedStatement"
    /\ rpcs[3] = rpcs[2]
    /\ tasks[1].op = "stmt_close" /\ tasks[1].pc = "rpc"
    /\ ~stmts[tasks[1].s].is_closed

\* C3: on a handle with closed = true every operation other than is_closed()
\* fails: execute, execute_update, close, set_parameters, parameter_schema and
\* dataset_schema.
C3_EveryOperationFailsWhenClosed ==
    [][\A t \in TaskIds, s \in StmtIds :
          \A op \in {"stmt_execute", "stmt_execute_update", "stmt_close",
                     "set_parameters", "parameter_schema", "dataset_schema"} :
             (Calls(t, op, s) /\ stmts[s].is_closed)
                => tasks'[t].pc = "idle" /\ tasks'[t].res.kind = "Err"]_vars

\* C4: a call of execute() or execute_update() on an open handle is never
\* answered with the illegal-state error, and no step of these operations,
\* whatever the server answers, changes any field of any handle.
C4_ExecuteLeavesOpenHandle ==
    [][\A t \in TaskIds, s \in StmtIds :
          \A op \in {"stmt_execute", "stmt_execute_update"} :
             /\ (Calls(t, op, s) /\ ~stmts[s].is_closed)
                   => /\ tasks'[t].res # IllegalState
                      /\ stmts' = stmts
                      /\ (borrow = 0 => tasks'[t].pc = "rpc")
             /\ (tasks[t].op = op /\ tasks[t].pc # "idle" /\ tasks[t].s = s
                 /\ tasks'[t] # tasks[t])
                   => /\ stmts' = stmts
                      /\ tasks'[t].res # IllegalState]_vars

\* C4 witness: on an open handle with a bound parameter batch, an execute()
\* that returned and an execute_update() after it that has returned a count
C4_Witness ==
    /\ Len(rpcs) = 3
    /\ rpcs[2].rpc = "do_put" /\ rpcs[3].rpc = "do_put"
    /\ tasks[1].op = "stmt_execute_update" /\ tasks[1].pc = "idle"
    /\ tasks[1].res.kind = "Ok" /\ tasks[1].res.n = 2
    /\ stmts[tasks[1].s].alive /\ ~stmts[tasks[1].s].is_closed
    /\ stmts[tasks[1].s].parameter_binding = <<2>>

\* C5: execute() on an open handle hands the transport one put of one frame
\* that carries the prepared-statement-query command of the handle; when the
\* frame it reads has metadata that decodes as an envelope it returns the
\* not-yet-implemented error; and it never returns success.
C5_ExecuteNotYetImplemented ==
    [][\A t \in TaskIds :
          /\ \A s \in StmtIds :
                (Calls(t, "stmt_execute", s) /\ ~stmts[s].is_closed /\ borrow = 0)
                   => /\ rpcs' = Append(rpcs,
                                        CommandPut(Envelope("CommandPreparedStatementQuery",
                                            IF stmts[s].handle = <<>> THEN <<>>
                                            ELSE <<BytesItem("prepared_statement_handle",
                                                             stmts[s].handle)>>)))
                      /\ tasks'[t].sent = 1
          /\ (tasks[t].op = "stmt_execute" /\ tasks[t].pc # "idle") => rpcs' = rpcs
          /\ tasks'[t].op = "stmt_execute" => tasks'[t].res.kind # "Ok"
          /\ (Returns(t, "stmt_execute") /\ tasks[t].pc = "message"
              /\ IsSome(tasks'[t].message.opt)
              /\ \A i \in 1..Len(tasks'[t].message.opt[1].app_metadata) :
                    LET item == tasks'[t].message.opt[1].app_metadata[i] IN
                    /\ item.wt \in {"varint", "len"}
                    /\ item.f \in {"type_url", "value"} => item.wt = "len"
                    /\ item.f = "type_url" => item.b = <<>>)
                => tasks'[t].res = [kind |-> "Err", err |-> "NotYetImplemented",
                                    msg |-> "Not yet implemented", n |-> 0]]_vars

\* C5 witness: execute() has read a frame whose metadata is the envelope of a
\* DoPutUpdateResult and has returned the not-yet-implemented error
C5_Witness ==
    /\ tasks[1].op = "stmt_execute" /\ tasks[1].pc = "idle"
    /\ IsSome(tasks[1].message.opt)
    /\ tasks[1].message.opt[1].app_metadata =
          Envelope("DoPutUpdateResult", <<VarintItem("record_count", 5)>>)
    /\ tasks[1].res.err = "NotYetImplemented"

\* the app_metadata that is the envelope of a DoPutUpdateResult of n records
UpdateResultEnvelope(n) ==
    Envelope("DoPutUpdateResult", IF n = 0 THEN <<>> ELSE <<VarintItem("record_count", n)>>)

\* C6: execute_update(query) of the session hands the transport one put of
\* one frame that carries nothing but the descriptor of the update command of
\* the query, hands it nothing more, and, when the one frame it reads has as
\* app_metadata the envelope of a DoPutUpdateResult of n records, returns n.
C6_ExecuteUpdateReturnsCount ==
    [][\A t \in TaskIds :
          /\ (Calls(t, "execute_update", 0) /\ borrow = 0)
                => /\ \E query \in Queries :
                         rpcs' = Append(rpcs,
                                        CommandPut(Envelope("CommandStatementUpdate",
                                                            <<StrItem("query", query)>>)))
                   /\ tasks'[t].sent = 1
          /\ (tasks[t].op = "execute_update" /\ tasks[t].pc # "idle") => rpcs' = rpcs
          /\ \A n \in Counts :
                (/\ Returns(t, "execute_update")
                 /\ tasks[t].pc = "message"
                 /\ IsSome(tasks'[t].message.opt)
                 /\ tasks'[t].message.opt[1].app_metadata = UpdateResultEnvelope(n))
                   => tasks'[t].res = [kind |-> "Ok", err |-> "", msg |-> "", n |-> n]]_vars

\* C6 witness: the session's execute_update has read the envelope of a
\* DoPutUpdateResult of 5 records and has returned 5
C6_Witness ==
    /\ tasks[1].op = "execute_update" /\ tasks[1].pc = "idle"
    /\ IsSome(tasks[1].message.opt)
    /\ tasks[1].message.opt[1].app_metadata = UpdateResultEnvelope(5)
    /\ tasks[1].res.kind = "Ok" /\ tasks[1].res.n = 5
    /\ tasks[1].sent = 1

\* C7: an operation that needs one response frame (execute_update and prepare
\* of the session, execute and execute_update of the handle) returns an error
\* when the response stream ends without a frame; it does not panic and does
\* not return a value.
C7_ZeroFramesIsAnError ==
    \A t \in TaskIds :
       (/\ tasks[t].op \in {"execute_update", "prepare", "stmt_execute", "stmt_execute_update"}
        /\ tasks[t].pc = "idle"
        /\ tasks[t].message.kind = "Ok"
        /\ tasks[t].message.opt = <<>>)
          => tasks[t].res.kind = "Err"

\* C8: when the envelope of the response frame has another type tag than the
\* result type of the operation (DoPutUpdateResult for execute_update of the
\* session and of the handle, ActionCreatePreparedStatementResult for
\* prepare), the operation returns an error; it does not panic and does not
\* return a value.
C8_TagMismatchIsAnError ==
    \A t \in TaskIds :
       /\ (/\ tasks[t].op \in {"execute_update", "stmt_execute_update"}
           /\ tasks[t].pc = "idle"
           /\ IsSome(tasks[t].message.opt)
           /\ DecodeAny(tasks[t].message.opt[1].app_metadata).ok
           /\ DecodeAny(tasks[t].message.opt[1].app_metadata).v.type_url
                 # "type.googleapis.com/arrow.flight.protocol.sql.DoPutUpdateResult")
             => tasks[t].res.kind = "Err"
       /\ (/\ tasks[t].op = "prepare"
           /\ tasks[t].pc = "idle"
           /\ IsSome(tasks[t].message.opt)
           /\ DecodeAny(tasks[t].message.opt[1].body).ok
           /\ DecodeAny(tasks[t].message.opt[1].body).v.type_url
                 # "type.googleapis.com/arrow.flight.protocol.sql.ActionCreatePreparedStatementResult")
             => tasks[t].res.kind = "Err"

\* C9: get_and_print on a FlightInfo without endpoints returns an error at
\* once: it does not panic, hands no do_get to the transport, prints nothing
\* and does not return success.
C9_NoEndpointIsAnError ==
    [][\A t \in TaskIds :
          (Calls(t, "get_and_print", 0) /\ Unwrapped(fi).endpoint = <<>>)
             => /\ tasks'[t].pc = "idle"
                /\ tasks'[t].res.kind = "Err"
                /\ tasks'[t].sent = 0
                /\ rpcs' = rpcs
                /\ printed' = <<>>]_vars

\* C9 witness: get_and_print has returned the error of the missing endpoint
C9_Witness ==
    /\ tasks[1].op = "get_and_print" /\ tasks[1].pc = "idle"
    /\ tasks[1].res.kind = "Err"
    /\ tasks[1].res.msg = "Failed to get first endpoint"

\* C10: get_and_print on a FlightInfo with endpoints hands the transport one
\* do_get, with the ticket of the first endpoint, and no further RPC,
\* whatever the other endpoints hold; when the first endpoint has no ticket
\* it returns an error and hands the transport nothing, also when a later
\* endpoint has a ticket.
C10_FirstEndpointTicket ==
    [][\A t \in TaskIds :
          /\ (Calls(t, "get_and_print", 0) /\ Unwrapped(fi).endpoint # <<>>)
                => IF Unwrapped(fi).endpoint[1].ticket # <<>>
                   THEN borrow = 0
                           => /\ rpcs' = Append(rpcs,
                                    [rpc |-> "do_get", descriptor |-> <<>>, frames |-> <<>>,
                                     action |-> <<>>,
                                     ticket |-> Unwrapped(fi).endpoint[1].ticket])
                              /\ tasks'[t].pc = "rpc"
                              /\ tasks'[t].sent = 1
                   ELSE /\ tasks'[t].pc = "idle"
                        /\ tasks'[t].res.kind = "Err"
                        /\ rpcs' = rpcs
          /\ (tasks[t].op = "get_and_print" /\ tasks[t].pc # "idle") => rpcs' = rpcs]_vars

\* C10 witness: the FlightInfo has two endpoints with different tickets, the
\* do_get with the first ticket has been answered and frames are being pulled
C10_Witness ==
    /\ tasks[1].op = "get_and_print" /\ tasks[1].pc = "message"
    /\ IsSome(fi)
    /\ Len(fi[1].endpoint) = 2
    /\ fi[1].endpoint[1].ticket # <<>>
    /\ fi[1].endpoint[2].ticket # <<>>
    /\ fi[1].endpoint[1].ticket # fi[1].endpoint[2].ticket
    /\ rpcs[Len(rpcs)].ticket = fi[1].endpoint[1].ticket

(***************************************************************************)
(* C11: the client keeps no record of the tickets it has used.  Every      *)
(* do_get, also one with a ticket an earlier do_get of the connection has  *)
(* sent, hands the transport one do_get RPC that carries the ticket and    *)
(* nothing else, and fails locally in no case; when the transport answers  *)
(* that RPC with a status, do_get returns the status as its error and      *)
(* sends nothing more.                                                     *)
(***************************************************************************)
C11_ReusedTicketPassesThrough ==
    [][\A t \in TaskIds :
          /\ Calls(t, "do_get", 0)
                => /\ tasks'[t].pc = "rpc"
                   /\ \E k \in Tickets :
                         rpcs' = Append(rpcs, [rpc |-> "do_get", descriptor |-> <<>>,
                                               frames |-> <<>>, action |-> <<>>,
                                               ticket |-> <<k>>])
          /\ (tasks[t].op = "do_get" /\ tasks[t].pc = "rpc" /\ tasks'[t].answer = "Err")
                => /\ tasks'[t].pc = "idle"
                   /\ tasks'[t].res = [kind |-> "Err", err |-> "IoError",
                                       msg |-> "Status", n |-> 0]
                   /\ rpcs' = rpcs]_vars

\* a second do_get with the ticket of the first has reached the transport
\* and has returned the transport's rejection
C11_Witness ==
    /\ Len(rpcs) = 2
    /\ rpcs[1].rpc = "do_get"
    /\ rpcs[2] = rpcs[1]
    /\ tasks[1].op = "do_get"
    /\ tasks[1].pc = "idle"
    /\ tasks[1].answer = "Err"
    /\ tasks[1].res.kind = "Err"

(***************************************************************************)
(* C12: for every message type of the prost_message_ext! list and every    *)
(* value c of the type, the envelope that pack makes of c unpacks with the *)
(* same type to Ok(Some(c)).                                               *)
(***************************************************************************)
C12_PackUnpackRoundTrip ==
    (call.fn = "unpack" /\ call.M # "" /\ call.T = call.M)
        => /\ call.result.kind = "Ok"
           /\ call.result.opt = <<call.message>>

\* a command with an absent, an empty and a repeated field has made the
\* round trip
C12_Witness ==
    /\ call.fn = "unpack"
    /\ call.M = "CommandGetTables"
    /\ call.T = "CommandGetTables"
    /\ call.message.catalog = <<>>
    /\ call.message.db_schema_filter_pattern = <<"">>
    /\ call.message.table_types = <<"a", "">>
    /\ call.message.include_schema
    /\ call.result.opt = <<call.message>>

\* the type tag of the envelope is the registered tag of the type T
TagOf(any, T) == any.type_url = "type.googleapis.com/arrow.flight.protocol.sql." \o T

(***************************************************************************)
(* C13: unpacking an envelope with a type whose registered tag is not      *)
(* exactly the type tag of the envelope returns Ok(None), whatever the     *)
(* payload is, and never an error.                                         *)
(***************************************************************************)
C13_TagMismatchIsNoMatch ==
    (call.fn = "unpack" /\ ~TagOf(call.any, call.T))
        => call.result = [kind |-> "Ok", opt |-> <<>>]

\* an envelope whose tag is a registered tag with one more letter and whose
\* payload is no encoding of any message has been unpacked
C13_Witness ==
    /\ call.fn = "unpack"
    /\ call.T = "CommandStatementQuery"
    /\ call.any.type_url = "type.googleapis.com/arrow.flight.protocol.sql.CommandStatementQueryx"
    /\ call.any.value = <<[f |-> "", wt |-> "byte", n |-> 9, s |-> "", b |-> <<>>]>>
    /\ call.result = [kind |-> "Ok", opt |-> <<>>]

\* the payload is no binary encoding of the type T: it holds a unit that is
\* no field item, or an item of a field of T with another wire type than the
\* field's, or bytes that are no text in a string field, or a packed number
\* that is cut short
Malformed(T, payload) ==
    \E i \in 1..Len(payload) :
        \/ payload[i].wt \notin {"varint", "len"}
        \/ \E j \in 1..Len(Fields(T)) :
              /\ Fields(T)[j].f = payload[i].f
              /\ \/ /\ Fields(T)[j].type \in {"string", "optional string",
                                               "repeated string", "bytes"}
                      /\ payload[i].wt = "varint"
                 \/ /\ Fields(T)[j].type \in {"string", "optional string", "repeated string"}
                      /\ payload[i].b # <<>>
                 \/ /\ Fields(T)[j].type \in {"int64", "bool"}
                      /\ payload[i].wt = "len"
                 \/ /\ Fields(T)[j].type = "repeated uint32"
                      /\ payload[i].wt = "len"
                      /\ \/ payload[i].s # ""
                         \/ \E k \in 1..Len(payload[i].b) :
                               payload[i].b[k].wt # "byte" \/ payload[i].b[k].n >= 128

(***************************************************************************)
(* C14: unpacking an envelope whose tag is the tag of T and whose payload  *)
(* is no binary encoding of T returns an error, which is neither Ok(None)  *)
(* nor a decoded value; a payload that is an encoding of T gives           *)
(* Ok(Some(..)), and an error is returned in no other case, so the three   *)
(* outcomes tell the three cases apart.                                    *)
(***************************************************************************)
C14_DecodeFailureIsAnError ==
    call.fn = "unpack"
        => /\ (TagOf(call.any, call.T) /\ Malformed(call.T, call.any.value))
                 => (call.result.kind = "Err" /\ call.result.opt = <<>>)
           /\ (TagOf(call.any, call.T) /\ ~Malformed(call.T, call.any.value))
                 => (call.result.kind = "Ok" /\ Len(call.result.opt) = 1)
           /\ call.result.kind = "Err"
                 => (TagOf(call.any, call.T) /\ Malformed(call.T, call.any.value))

\* an envelope with the tag of DoPutUpdateResult whose payload ends in a raw
\* byte has been unpacked as a DoPutUpdateResult
C14_Witness ==
    /\ call.fn = "unpack"
    /\ call.T = "DoPutUpdateResult"
    /\ call.any.type_url = "type.googleapis.com/arrow.flight.protocol.sql.DoPutUpdateResult"
    /\ Len(call.any.value) = 2
    /\ call.any.value[2].wt = "byte"
    /\ call.result.kind = "Err"

\* the data_header of the frame is a Message whose header has the type code
\* ht: the root, the code and the header itself, which is there unless the
\* code is that of no header
HeaderIs(frame, ht) ==
    /\ Len(frame.data_header) = 3
    /\ \A i \in 1..3 : frame.data_header[i].wt = "byte"
    /\ frame.data_header[1].n = 1
    /\ frame.data_header[2].n = ht
    /\ (frame.data_header[3].n = 0) <=> (ht = 0)

\* the kinds the decoder does not support, by type code
UnsupportedKinds ==
    [kind \in {2, 4, 5} |->
        CASE kind = 2 -> "dictionary batch" [] kind = 4 -> "tensor" [] kind = 5 -> "sparse tensor"]

(***************************************************************************)
(* C15: for every frame whose header is a DictionaryBatch, a Tensor or a   *)
(* SparseTensor, with every body and every schema, the frame decoder       *)
(* returns the NotYetImplemented error that names the kind: no artifact    *)
(* and no error of another variant.                                        *)
(***************************************************************************)
C15_UnsupportedKindsAreNotImplemented ==
    call.fn = "arrow_data_from_flight_data"
        => \A kind \in DOMAIN UnsupportedKinds :
              HeaderIs(call.flight_data, kind)
                 => /\ call.result.art = ""
                    /\ call.result.res =
                          [kind |-> "Err", err |-> "NotYetImplemented", n |-> 0,
                           msg |-> "no idea on how to convert an ipc "
                                   \o UnsupportedKinds[kind] \o " to an arrow type"]

\* a tensor frame that carries a body has been decoded against the second
\* schema
C15_Witness ==
    /\ call.fn = "arrow_data_from_flight_data"
    /\ HeaderIs(call.flight_data, 4)
    /\ call.flight_data.data_body # <<>>
    /\ call.arrow_schema_ref = 2
    /\ call.result.res.err = "NotYetImplemented"

(***************************************************************************)
(* C16: the kind of the frame decoder's result is fixed by the type of the *)
(* frame's header, whatever the body and the schema are: a Schema header   *)
(* gives a Schema artifact; a RecordBatch header gives a RecordBatch       *)
(* artifact or an error that is not NotYetImplemented; no header and a     *)
(* header of a type the decoder does not know give the ComputeError that   *)
(* names the header type, never an artifact and never NotYetImplemented.   *)
(***************************************************************************)
C16_ResultKindFollowsHeaderType ==
    call.fn = "arrow_data_from_flight_data"
        => /\ HeaderIs(call.flight_data, 1)
                 => (call.result.art = "Schema" /\ call.result.res.kind = "Ok")
           /\ HeaderIs(call.flight_data, 3)
                 => \/ call.result.art = "RecordBatch" /\ call.result.res.kind = "Ok"
                    \/ /\ call.result.art = ""
                       /\ call.result.res.kind = "Err"
                       /\ call.result.res.err # "NotYetImplemented"
           /\ (HeaderIs(call.flight_data, 0) \/ HeaderIs(call.flight_data, 6))
                 => /\ call.result.art = ""
                    /\ call.result.res.kind = "Err"
                    /\ call.result.res.err = "ComputeError"
                    /\ call.result.res.msg =
                          IF HeaderIs(call.flight_data, 0)
                          THEN "Unable to convert message with header_type: 'NONE' to arrow data"
                          ELSE "Unable to convert message with header_type: '<UNKNOWN 6>' to arrow data"

\* a frame whose header has a type the decoder does not know has been decoded
C16_Witness ==
    /\ call.fn = "arrow_data_from_flight_data"
    /\ HeaderIs(call.flight_data, 6)
    /\ call.result.res.err = "ComputeError"

\* task t, in the loop of print_flight_data_stream, takes a step
Pulls(t) ==
    /\ tasks[t].op = "get_and_print"
    /\ tasks[t].pc = "message"
    /\ tasks'[t] # tasks[t]

\* what the frame decoder makes of the frame the step has read
Artifact(t) ==
    arrow_data_from_flight_data(tasks'[t].message.opt[1], tasks[t].schema)

C18_FirstErrorEndsTheStream ==
    [][\A t \in TaskIds :
          /\ Pulls(t) =>
                /\ tasks'[t].message.kind = "Err"
                      => /\ tasks'[t].pc = "idle"
                         /\ tasks'[t].res = [kind |-> "Err", err |-> "IoError",
                                             msg |-> "Status", n |-> 0]
                         /\ tasks'[t].pulled = tasks[t].pulled
                         /\ printed' = printed
                /\ (tasks'[t].message.kind = "Ok" /\ tasks'[t].message.opt # <<>>
                      /\ Artifact(t).res.kind = "Err")
                      => /\ tasks'[t].pc = "idle"
                         /\ tasks'[t].res = Artifact(t).res
                         /\ tasks'[t].pulled = tasks[t].pulled
                         /\ printed' = printed
          /\ (tasks[t].op = "get_and_print" /\ tasks[t].pc = "idle")
                => (tasks'[t].pc # "message" /\ (printed' = printed \/ printed' = <<>>))]_vars

\* after a record batch the stream has brought a tensor frame: the consumer
\* has returned the error of the decoder, with one batch printed
C18_Witness ==
    /\ tasks[1].op = "get_and_print"
    /\ tasks[1].pc = "idle"
    /\ tasks[1].res.err = "NotYetImplemented"
    /\ tasks[1].pulled = 1
    /\ Len(printed) = 1

\* the command type of each read-oriented operation of the session
CommandOf ==
    [execute |-> "CommandStatementQuery", get_catalogs |-> "CommandGetCatalogs",
     get_db_schemas |-> "CommandGetDbSchemas", get_tables |-> "CommandGetTables",
     get_table_types |-> "CommandGetTableTypes",
     get_primary_keys |-> "CommandGetPrimaryKeys",
     get_exported_keys |-> "CommandGetExportedKeys",
     get_imported_keys |-> "CommandGetImportedKeys",
     get_cross_reference |-> "CommandGetCrossReference",
     get_sql_info |-> "CommandGetSqlInfo"]

\* the describe RPC of a command: a descriptor of the Command kind that
\* carries cmd, and nothing else
Describe(cmd) ==
    [rpc |-> "get_flight_info",
     descriptor |-> <<[type |-> "Cmd", cmd |-> cmd, path |-> <<>>]>>,
     frames |-> <<>>, action |-> <<>>, ticket |-> <<>>]

(***************************************************************************)
(* C20: each read-oriented operation of the session issues one             *)
(* get_flight_info RPC and no other RPC.  The call hands the transport the *)
(* describe RPC whose descriptor is of the Command kind and carries the    *)
(* envelope of the command the operation was called with: the type tag of  *)
(* the operation's command type and the binary encoding of the command.    *)
(* The answer ends the operation, which sends nothing more; when the       *)
(* answer is a FlightInfo the operation returns Ok and the caller holds    *)
(* that FlightInfo as the server gave it.                                  *)
(***************************************************************************)
C20_ReadOperationDescribesOnce ==
    [][\A t \in TaskIds : \A op \in DOMAIN CommandOf :
          /\ Calls(t, op, 0)
                => /\ tasks'[t].pc = "rpc"
                   /\ tasks'[t].sent = 1
                   /\ rpcs' = Append(rpcs,
                                     Describe(Envelope(CommandOf[op],
                                                       encode_to_vec(CommandOf[op],
                                                                     tasks'[t].cmd))))
          /\ (tasks[t].op = op /\ tasks[t].pc = "rpc" /\ tasks'[t] # tasks[t])
                => /\ tasks'[t].pc = "idle"
                   /\ tasks'[t].sent = 1
                   /\ rpcs' = rpcs
                   /\ tasks'[t].answer = "Ok"
                         => /\ tasks'[t].res.kind = "Ok"
                            /\ fi' = tasks'[t].message.opt
                            /\ fi' # <<>>]_vars

\* get_cross_reference has been answered with a FlightInfo of two endpoints,
\* which the caller holds
C20_Witness ==
    /\ tasks[1].op = "get_cross_reference"
    /\ tasks[1].pc = "idle"
    /\ tasks[1].answer = "Ok"
    /\ Len(rpcs) = 1
    /\ fi # <<>>
    /\ Len(fi[1].endpoint) = 2

(***************************************************************************)
(* C19: a failure of the transport ends the operation that met it.  When   *)
(* the RPC of an operation is answered with a status, or the read of its   *)
(* response stream gives one, the operation returns that status as its     *)
(* error in the same step and hands the transport nothing more.  The       *)
(* transport is handed an RPC only by the call of an operation, one RPC    *)
(* per call, so no RPC is sent a second time.                              *)
(***************************************************************************)
C19_TransportFailureIsReturned ==
    [][/\ \A t \in TaskIds :
            /\ (tasks[t].pc = "rpc" /\ tasks'[t].answer = "Err")
                  => /\ tasks'[t].pc = "idle"
                     /\ tasks'[t].res = [kind |-> "Err", err |-> "IoError",
                                         msg |-> "Status", n |-> 0]
                     /\ tasks'[t].sent = 1
                     /\ rpcs' = rpcs
            /\ (tasks[t].pc = "message" /\ tasks'[t] # tasks[t]
                  /\ tasks'[t].message.kind = "Err")
                  => /\ tasks'[t].pc = "idle"
                     /\ tasks'[t].res = [kind |-> "Err", err |-> "IoError",
                                         msg |-> "Status", n |-> 0]
                     /\ tasks'[t].sent = 1
                     /\ rpcs' = rpcs
       /\ rpcs' # rpcs
            => \/ rpcs' = <<>>
               \/ /\ Len(rpcs') = Len(rpcs) + 1
                  /\ \E t \in TaskIds :
                        /\ tasks[t].pc = "idle"
                        /\ tasks'[t].pc = "rpc"
                        /\ tasks'[t].sent = 1]_vars

\* three operations of one connection have each met a status; the transport
\* has been handed three RPCs
C19_Witness ==
    /\ Len(rpcs) = 3
    /\ tasks[1].op = "stmt_close"
    /\ tasks[1].pc = "idle"
    /\ tasks[1].answer = "Err"
    /\ tasks[1].res.msg = "Status"
    /\ tasks[1].sent = 1

HandlePayload(handle) ==
    IF handle = <<>> THEN <<>> ELSE <<BytesItem("prepared_statement_handle", handle)>>

(***************************************************************************)
(* C22: execute_update() on an open handle hands the transport one put of  *)
(* one frame whose descriptor carries the envelope of the command          *)
(* CommandPreparedStatementUpdate around the server-assigned bytes of the  *)
(* handle; this put differs from the put execute() sends for the handle.   *)
(***************************************************************************)
C22_ExecuteUpdatePutsTheUpdateCommand ==
    [][\A t \in TaskIds, s \in StmtIds :
          (Calls(t, "stmt_execute_update", s) /\ ~stmts[s].is_closed /\ borrow = 0)
             => /\ rpcs' = Append(rpcs,
                                  CommandPut(Envelope("CommandPreparedStatementUpdate",
                                                      HandlePayload(stmts[s].handle))))
                /\ rpcs'[Len(rpcs')]
                      # CommandPut(Envelope("CommandPreparedStatementQuery",
                                            HandlePayload(stmts[s].handle)))]_vars

\* a schema blob as the protocol has it: four bytes of continuation marker,
\* four bytes of size, and a message whose header is a schema
WellFormedSchemaBlob(blob) ==
    /\ Len(blob) = 11
    /\ \A i \in 1..11 : blob[i].wt = "byte"
    /\ \A i \in 1..4 : blob[i].n = 255
    /\ blob[5].n = 3 /\ \A i \in 6..8 : blob[i].n = 0
    /\ blob[9].n = 1 /\ blob[10].n = 1 /\ blob[11].n # 0

\* the schema a well-formed blob holds
SchemaOf(blob) == blob[11].n

\* the body of the response of the create-prepared-statement action: the
\* envelope of a result with a handle and two schema blobs
CreateResultBody(h, ds, ps) ==
    Envelope("ActionCreatePreparedStatementResult",
             HandlePayload(h)
             \o (IF ds = <<>> THEN <<>> ELSE <<BytesItem("dataset_schema", ds)>>)
             \o (IF ps = <<>> THEN <<>> ELSE <<BytesItem("parameter_schema", ps)>>))

(***************************************************************************)
(* C23: the decoding of a schema blob never panics.  prepare, answered     *)
(* with the envelope of a creation result, returns a handle with the two   *)
(* schemas found behind the continuation marker and the size prefix when   *)
(* both blobs are well formed, and an error when one is not (an empty      *)
(* blob and one of fewer than 4 bytes included); get_and_print that stops  *)
(* at the schema of the FlightInfo, after do_get was answered and before a *)
(* frame is read, returns an error.                                        *)
(***************************************************************************)
C23_SchemaBlobDecodesOrFails ==
    \A t \in TaskIds :
       /\ \A h \in Handles, ds \in SchemaBlobs, ps \in SchemaBlobs :
             (/\ tasks[t].op = "prepare"
              /\ tasks[t].pc = "idle"
              /\ tasks[t].message = [kind |-> "Ok", opt |-> <<[body |-> CreateResultBody(h, ds, ps)]>>])
                => IF WellFormedSchemaBlob(ds) /\ WellFormedSchemaBlob(ps)
                   THEN /\ tasks[t].res.kind = "Ok"
                        /\ stmts[1].alive
                        /\ stmts[1].handle = h
                        /\ stmts[1].dataset_schema = SchemaOf(ds)
                        /\ stmts[1].parameter_schema = SchemaOf(ps)
                   ELSE tasks[t].res.kind = "Err"
       /\ (/\ tasks[t].op = "get_and_print"
           /\ tasks[t].pc = "idle"
           /\ tasks[t].answer = "Ok"
           /\ tasks[t].message = [kind |-> "", opt |-> <<>>])
             => tasks[t].res.kind = "Err"

\* task u is suspended at an await: on the answer of its RPC or on a message
\* of its response stream
Suspended(u) == tasks[u].pc \in {"rpc", "message"}

\* task t hands an RPC to the transport in this step
Issues(t) == rpcs' # rpcs /\ tasks'[t] # tasks[t]

\* the transport of a connection gets nothing but in the step that starts an
\* operation, and then one RPC, behind those it has
InOrderOfStart ==
    (rpcs' # rpcs /\ ~\E t \in TaskIds : Calls(t, "new_client", 0))
       => /\ Len(rpcs') = Len(rpcs) + 1
          /\ SubSeq(rpcs', 1, Len(rpcs)) = rpcs
          /\ \E t \in TaskIds : tasks[t].pc = "idle" /\ tasks'[t].pc = "rpc"

(***************************************************************************)
(* C24 as the specification has it: a task holds the borrow of the         *)
(* transport exactly while it awaits the answer of its RPC, so at most one *)
(* does; while a task is suspended no other task hands the transport an    *)
(* RPC; and RPCs reach the transport in the order in which the operations  *)
(* were started.                                                           *)
(***************************************************************************)
C24_NoRpcWhileAnotherIsSuspended ==
    [][/\ \A t \in TaskIds : (borrow = t) <=> (tasks[t].pc = "rpc")
       /\ \A t \in TaskIds, u \in TaskIds : (t # u /\ Suspended(u)) => ~Issues(t)
       /\ InOrderOfStart]_vars

(***************************************************************************)
(* C24, amended: a task holds the borrow of the transport exactly while it *)
(* awaits the answer of its RPC, so at most one does.  An operation that   *)
(* starts while another task holds the borrow hands the transport nothing: *)
(* it panics, and the other task is left as it was.  Once the answer has   *)
(* arrived and the first task awaits a message of its response stream the  *)
(* borrow is free, and an operation that starts then hands the transport   *)
(* its RPC.  RPCs reach the transport in the order in which the operations *)
(* were started.                                                           *)
(***************************************************************************)
C24_BorrowIsHeldUntilTheAnswer ==
    [][/\ \A t \in TaskIds : (borrow = t) <=> (tasks[t].pc = "rpc")
       /\ \A t \in TaskIds : (borrow' = t) <=> (tasks'[t].pc = "rpc")
       /\ \A t \in TaskIds, u \in TaskIds :
             (t # u /\ tasks[u].pc = "rpc") => ~Issues(t)
       /\ \A t \in TaskIds, s \in StmtIds :
             (Calls(t, "stmt_execute_update", s) /\ ~stmts[s].is_closed)
                => IF borrow # 0
                   THEN /\ tasks'[t].pc = "idle"
                        /\ tasks'[t].res.kind = "Panic"
                        /\ rpcs' = rpcs
                        /\ borrow' = borrow
                        /\ tasks'[borrow] = tasks[borrow]
                   ELSE /\ tasks'[t].pc = "rpc"
                        /\ Len(rpcs') = Len(rpcs) + 1
                        /\ borrow' = t
       /\ InOrderOfStart]_vars

\* C24 witness: execute_update on the handle awaits the answer of its put,
\* and execute_update on the clone, started meanwhile, has panicked and has
\* handed the transport nothing
C24_Witness ==
    /\ tasks[1].op = "stmt_execute_update" /\ tasks[1].pc = "rpc" /\ tasks[1].s = 1
    /\ borrow = 1
    /\ tasks[2].op = "stmt_execute_update" /\ tasks[2].pc = "idle" /\ tasks[2].s = 2
    /\ tasks[2].res.kind = "Panic"
    /\ tasks[2].sent = 0
    /\ Len(rpcs) = 2
    /\ stmts[2].handle = stmts[1].handle

(***************************************************************************)
(* C25: get_and_print, called with the FlightInfo of the describe that was *)
(* the last RPC, hands the transport one do_get with the ticket of the     *)
(* first endpoint before it looks at the schema.  When the do_get is       *)
(* rejected it returns the error of the status, whatever the schema is.    *)
(* When the do_get is answered it decodes the schema: a schema that does   *)
(* not decode ends the call in an error, with the one do_get sent and no   *)
(* frame pulled; with a schema that decodes the frames are pulled, and no  *)
(* frame is pulled anywhere else.                                          *)
(***************************************************************************)
C25_DescribeThenGetThenSchemaThenFrames ==
    [][\A t \in TaskIds :
          /\ (/\ Calls(t, "get_and_print", 0)
              /\ Unwrapped(fi).endpoint # <<>>
              /\ Unwrapped(fi).endpoint[1].ticket # <<>>
              /\ borrow = 0)
                => /\ Len(rpcs) >= 1
                   /\ rpcs[Len(rpcs)].rpc = "get_flight_info"
                   /\ rpcs' = Append(rpcs,
                                     [rpc |-> "do_get", descriptor |-> <<>>, frames |-> <<>>,
                                      action |-> <<>>,
                                      ticket |-> Unwrapped(fi).endpoint[1].ticket])
                   /\ tasks'[t].pc = "rpc"
          /\ (tasks[t].op = "get_and_print" /\ tasks[t].pc = "rpc" /\ tasks'[t] # tasks[t])
                => /\ rpcs' = rpcs
                   /\ tasks'[t].sent = 1
                   /\ tasks'[t].pulled = 0
                   /\ printed' = <<>>
                   /\ IF tasks'[t].answer = "Err"
                      THEN /\ tasks'[t].pc = "idle"
                           /\ tasks'[t].res = [kind |-> "Err", err |-> "IoError",
                                               msg |-> "Status", n |-> 0]
                      ELSE IF WellFormedSchemaBlob(Unwrapped(fi).schema)
                      THEN /\ tasks'[t].pc = "message"
                           /\ tasks'[t].schema = SchemaOf(Unwrapped(fi).schema)
                      ELSE /\ tasks'[t].pc = "idle"
                           /\ tasks'[t].res.kind = "Err"
                           /\ tasks'[t].res.err = "ComputeError"
          /\ tasks'[t].pulled > tasks[t].pulled
                => tasks[t].op = "get_and_print" /\ tasks[t].pc = "message"]_vars
====
